---- MODULE Spec2Model ----
(***************************************************************************)
(* Call-graph engine and diff-to-impact mapper of the Java analyser        *)
(* (call_graph.py, ast_extractor.py).                                      *)
(*                                                                         *)
(* A Python str is a sequence of one-character strings, so that            *)
(* startswith, split, strip and re.sub are computed on the characters:     *)
(* "p.A.f" is <<"p", ".", "A", ".", "f">>.  None is the empty sequence     *)
(* wherever the code only tests truthiness.                                *)
(*                                                                         *)
(* Three specifications share the variables:                               *)
(*   SpecGraph  the CallGraph operations add_method, add_call, save, load  *)
(*   SpecDiff   parse_diff on one diff text                                *)
(*   Spec       build_project_index, analyze_project and analyze_file on   *)
(*              one project                                                *)
(***************************************************************************)
EXTENDS Integers, Sequences, FiniteSets, TLC

VARIABLES
    call_graph,   \* CallGraph: [nodes |-> dict, edges |-> dict]
    last,         \* the CallGraph operation performed by the latest step
    pc,           \* position of the run: "build", "saved", "loaded" (CallGraph
                  \* session), "diff", "parsed" (parse_diff), "new", "index",
                  \* "calls", "map", "done" (project index and impact mapper)
    document,     \* what save() wrote: [methods, call_hierarchy, metadata]
    restored,     \* the fresh CallGraph that load() filled from document
    diff_text,    \* parse_diff: the lines of the diff text (diff_text.splitlines())
    diff_pos,     \* parse_diff: number of lines the loop has consumed
    diff_state,   \* parse_diff: changes, current_file, current_line_number, in_hunk
    diff_result,  \* parse_diff: the returned dict, file path -> sorted line list
    project,         \* the Java files under src_root, as _get_java_files lists them
    method_index,    \* JavaASTExtractor.method_index: key -> method_info
    import_cache,    \* JavaASTExtractor.import_cache: file path -> imports dict
    file_pos,        \* build_project_index: files the first pass has visited
    processed_files, \* build_project_index: the set processed_files
    calls_done,      \* build_project_index: files the second pass has visited
    request,         \* the analyze_file call that is waiting for the index
    analysis         \* what the latest analyze_file call returned

graph_vars == <<call_graph, last, pc, document, restored>>

graph_vars_but_pc == <<call_graph, last, document, restored>>

diff_vars == <<diff_text, diff_pos, diff_state, diff_result>>

index_vars == <<project, method_index, import_cache, file_pos,
                processed_files, calls_done, request, analysis>>

vars == <<call_graph, last, pc, document, restored,
          diff_text, diff_pos, diff_state, diff_result,
          project, method_index, import_cache, file_pos,
          processed_files, calls_done, request, analysis>>

---------------------------------------------------------------------------
(* str helpers *)

startswith(s, prefix) ==
    Len(prefix) <= Len(s) /\ SubSeq(s, 1, Len(prefix)) = prefix

RECURSIVE split(_)
split(s) ==
    IF \A i \in 1..Len(s) : s[i] # "."
    THEN <<s>>
    ELSE LET i == CHOOSE k \in 1..Len(s) :
                      s[k] = "." /\ \A j \in 1..(k - 1) : s[j] # "."
         IN  <<SubSeq(s, 1, i - 1)>> \o split(SubSeq(s, i + 1, Len(s)))

RECURSIVE strip(_)
strip(s) ==
    IF s = <<>> THEN s
    ELSE IF s[1] = "." THEN strip(Tail(s))
    ELSE IF s[Len(s)] = "." THEN strip(SubSeq(s, 1, Len(s) - 1))
    ELSE s

isalpha(c) ==
    c \in { "a","b","c","d","e","f","g","h","i","j","k","l","m",
            "n","o","p","q","r","s","t","u","v","w","x","y","z",
            "A","B","C","D","E","F","G","H","I","J","K","L","M",
            "N","O","P","Q","R","S","T","U","V","W","X","Y","Z" }

isalnum(c) ==
    isalpha(c) \/ c \in { "0","1","2","3","4","5","6","7","8","9" }

Range(q) == { q[i] : i \in 1..Len(q) }

\* The members of S in the order of ord: list(S) for one iteration order.
RECURSIVE list(_, _)
list(S, ord) ==
    IF ord = <<>> THEN <<>>
    ELSE (IF Head(ord) \in S THEN <<Head(ord)>> ELSE <<>>) \o list(S, Tail(ord))

Orders(S) ==
    { q \in [1..Cardinality(S) -> S] : Range(q) = S }

---------------------------------------------------------------------------
(* CallGraph *)

EmptyGraph == [nodes |-> <<>>, edges |-> <<>>]

NoCalls == [callers |-> {}, callees |-> {}]

\* dict[key] = value
Put(dict, key, value) ==
    [k \in DOMAIN dict \cup {key} |-> IF k = key THEN value ELSE dict[k]]

\* method_info.get(key) of a line number; None is 0 (lines are 1-based and
\* the code only tests "if start_line and end_line").
get_line(method_info, key) ==
    IF key \in DOMAIN method_info THEN method_info[key] ELSE 0

RECURSIVE join_words(_)
join_words(words) ==
    IF Len(words) <= 1 THEN words
    ELSE <<words[1], " ">> \o join_words(Tail(words))

\* list(method_info['modifiers']).  One representative order of list(set):
\* no operation reads the order of a node's modifiers.
modifier_list(method_info) ==
    IF "modifiers" \notin DOMAIN method_info THEN <<>>
    ELSE list(method_info.modifiers,
              CHOOSE q \in Orders(method_info.modifiers) : TRUE)

\* A str is falsy when absent (None) or empty.
node_signature(method_info) ==
    IF "signature" \in DOMAIN method_info /\ method_info.signature # <<>>
    THEN method_info.signature
    ELSE join_words(modifier_list(method_info)) \o <<" ">>
             \o method_info.name \o <<"(", ")">>

\* The keys whose absence raises KeyError inside add_method's try block.
add_method_raises(method_info) ==
    \E key \in {"name", "file_path", "class_name", "type"} :
        key \notin DOMAIN method_info

\* The dict stored in self.nodes[qualified_name].
node_record(qualified_name, method_info) ==
    [name           |-> method_info.name,
     qualified_name |-> qualified_name,
     file_path      |-> method_info.file_path,
     class_name     |-> method_info.class_name,
     start_line     |-> get_line(method_info, "start_line"),
     end_line       |-> get_line(method_info, "end_line"),
     type           |-> method_info.type,
     modifiers      |-> modifier_list(method_info),
     signature      |-> node_signature(method_info)]

\* add_method with the edges entry created unconditionally.
add_method_resets_edges(graph, qualified_name, method_info) ==
    IF add_method_raises(method_info) THEN graph
    ELSE [nodes |-> Put(graph.nodes, qualified_name,
                        node_record(qualified_name, method_info)),
          edges |-> Put(graph.edges, qualified_name, NoCalls)]

add_method(graph, qualified_name, method_info) ==
    IF add_method_raises(method_info) THEN graph
    ELSE [nodes |-> Put(graph.nodes, qualified_name,
                        node_record(qualified_name, method_info)),
          edges |-> IF qualified_name \in DOMAIN graph.edges
                    THEN graph.edges
                    ELSE Put(graph.edges, qualified_name, NoCalls)]

exclude_prefixes ==
    { <<"j","a","v","a",".">>,
      <<"j","a","v","a","x",".">>,
      <<"s","u","n",".">>,
      <<"c","o","m",".","s","u","n",".">>,
      <<"o","r","g",".","w","3","c",".">>,
      <<"o","r","g",".","x","m","l",".">>,
      <<"o","r","g",".","i","e","t","f",".">>,
      <<"o","r","g",".","o","m","g",".">>,
      <<"o","r","g",".","j","c","p",".">>,
      <<"a","n","d","r","o","i","d",".">> }

common_java_types ==
    { <<"O","b","j","e","c","t">>,
      <<"S","t","r","i","n","g">>,
      <<"I","n","t","e","g","e","r">>,
      <<"L","o","n","g">>,
      <<"D","o","u","b","l","e">>,
      <<"F","l","o","a","t">>,
      <<"B","o","o","l","e","a","n">>,
      <<"B","y","t","e">>,
      <<"S","h","o","r","t">>,
      <<"C","h","a","r","a","c","t","e","r">>,
      <<"E","x","c","e","p","t","i","o","n">>,
      <<"R","u","n","t","i","m","e","E","x","c","e","p","t","i","o","n">>,
      <<"I","l","l","e","g","a","l","A","r","g","u","m","e","n","t","E","x","c","e","p","t","i","o","n">>,
      <<"N","u","l","l","P","o","i","n","t","e","r","E","x","c","e","p","t","i","o","n">>,
      <<"I","l","l","e","g","a","l","S","t","a","t","e","E","x","c","e","p","t","i","o","n">>,
      <<"U","n","s","u","p","p","o","r","t","e","d","O","p","e","r","a","t","i","o","n","E","x","c","e","p","t","i","o","n">>,
      <<"I","n","d","e","x","O","u","t","O","f","B","o","u","n","d","s","E","x","c","e","p","t","i","o","n">>,
      <<"N","o","S","u","c","h","E","l","e","m","e","n","t","E","x","c","e","p","t","i","o","n">>,
      <<"C","l","a","s","s","C","a","s","t","E","x","c","e","p","t","i","o","n">>,
      <<"A","r","r","a","y","I","n","d","e","x","O","u","t","O","f","B","o","u","n","d","s","E","x","c","e","p","t","i","o","n">>,
      <<"L","i","s","t">>,
      <<"A","r","r","a","y","L","i","s","t">>,
      <<"L","i","n","k","e","d","L","i","s","t">>,
      <<"S","e","t">>,
      <<"H","a","s","h","S","e","t">>,
      <<"M","a","p">>,
      <<"H","a","s","h","M","a","p">>,
      <<"T","r","e","e","M","a","p">>,
      <<"C","o","l","l","e","c","t","i","o","n">>,
      <<"C","o","l","l","e","c","t","i","o","n","s">>,
      <<"A","r","r","a","y","s">>,
      <<"I","t","e","r","a","t","o","r">>,
      <<"I","t","e","r","a","b","l","e">>,
      <<"S","t","r","i","n","g","B","u","i","l","d","e","r">>,
      <<"S","t","r","i","n","g","B","u","f","f","e","r">>,
      <<"M","a","t","h">>,
      <<"S","y","s","t","e","m">>,
      <<"C","l","a","s","s">>,
      <<"T","h","r","e","a","d">>,
      <<"R","u","n","n","a","b","l","e">>,
      <<"O","p","t","i","o","n","a","l">>,
      <<"S","t","r","e","a","m">>,
      <<"C","o","l","l","e","c","t","o","r","s">>,
      <<"O","b","j","e","c","t","s">>,
      <<"P","r","i","n","t","S","t","r","e","a","m">>,
      <<"P","r","i","n","t","W","r","i","t","e","r">>,
      <<"C","o","n","s","o","l","e">>,
      <<"S","c","a","n","n","e","r">>,
      <<"R","a","n","d","o","m">>,
      <<"D","a","t","e">>,
      <<"C","a","l","e","n","d","a","r">>,
      <<"T","i","m","e","Z","o","n","e">> }

standard_method_patterns ==
    { <<"S","y","s","t","e","m",".","o","u","t">>,
      <<"S","y","s","t","e","m",".","e","r","r">>,
      <<"S","y","s","t","e","m",".","i","n">>,
      <<"S","y","s","t","e","m",".","c","u","r","r","e","n","t","T","i","m","e","M","i","l","l","i","s">>,
      <<"S","y","s","t","e","m",".","n","a","n","o","T","i","m","e">>,
      <<"S","y","s","t","e","m",".","a","r","r","a","y","c","o","p","y">>,
      <<"S","y","s","t","e","m",".","g","e","t","P","r","o","p","e","r","t","y">>,
      <<"S","y","s","t","e","m",".","s","e","t","P","r","o","p","e","r","t","y">>,
      <<"S","y","s","t","e","m",".","g","e","t","e","n","v">> }

is_excluded_prefix(method_name) ==
    \E prefix \in exclude_prefixes : startswith(method_name, prefix)

is_standard_library_call(method_name) ==
    \/ \E pattern \in standard_method_patterns : startswith(method_name, pattern)
    \/ split(method_name)[Len(split(method_name))] \in common_java_types

\* add_call with only the callee tested.
add_call_skips_callee_only(caller, callee) ==
    is_excluded_prefix(callee) \/ is_standard_library_call(callee)

add_call_skips(caller, callee) ==
    \/ is_excluded_prefix(caller) \/ is_excluded_prefix(callee)
    \/ is_standard_library_call(caller) \/ is_standard_library_call(callee)

\* add_call with the callers side of the edge left out.
add_call_insert_callees_only(edges, caller, callee) ==
    LET e1 == IF caller \in DOMAIN edges THEN edges ELSE Put(edges, caller, NoCalls)
        e2 == IF callee \in DOMAIN e1 THEN e1 ELSE Put(e1, callee, NoCalls)
    IN  [e2 EXCEPT ![caller].callees = @ \cup {callee}]

add_call_insert(edges, caller, callee) ==
    LET e1 == IF caller \in DOMAIN edges THEN edges ELSE Put(edges, caller, NoCalls)
        e2 == IF callee \in DOMAIN e1 THEN e1 ELSE Put(e1, callee, NoCalls)
        e3 == [e2 EXCEPT ![caller].callees = @ \cup {callee}]
    IN  [e3 EXCEPT ![callee].callers = @ \cup {caller}]

\* add_call whose drop still initialises the caller's edges entry.
add_call_drop_keeps_entry(graph, caller, callee) ==
    IF add_call_skips(caller, callee)
    THEN [graph EXCEPT !.edges = IF caller \in DOMAIN @ THEN @
                                 ELSE Put(@, caller, NoCalls)]
    ELSE [graph EXCEPT !.edges = add_call_insert(graph.edges, caller, callee)]

add_call(graph, caller, callee) ==
    IF add_call_skips(caller, callee) THEN graph
    ELSE [graph EXCEPT !.edges = add_call_insert(graph.edges, caller, callee)]

_is_valid_method_name(method_name) ==
    LET stripped == strip(method_name)
        parts    == split(stripped)
    IN  /\ method_name # <<>>
        /\ \A i \in 1..Len(stripped) :
               stripped[i] \notin {"<", ">", "(", ")", "{", "}", "[", "]", "\\", "/"}
        /\ Len(parts) >= 2
        /\ \A i \in 1..Len(parts) :
               /\ parts[i] # <<>>
               /\ isalpha(parts[i][1]) \/ parts[i][1] = "_"
               /\ \A j \in 1..Len(parts[i]) :
                      isalnum(parts[i][j]) \/ parts[i][j] = "_"

get_callers(graph, method_name) ==
    IF method_name \in DOMAIN graph.edges
    THEN graph.edges[method_name].callers ELSE {}

get_callees(graph, method_name) ==
    IF method_name \in DOMAIN graph.edges
    THEN graph.edges[method_name].callees ELSE {}

total_calls(graph) ==
    LET RECURSIVE sum(_)
        sum(keys) ==
            IF keys = {} THEN 0
            ELSE LET k == CHOOSE x \in keys : TRUE
                 IN  Cardinality(graph.edges[k].callees) + sum(keys \ {k})
    IN  sum(DOMAIN graph.edges)

\* get_stats that counts the methods with callees as the calls.
get_stats_counting_methods(graph) ==
    [total_methods |-> Cardinality(DOMAIN graph.nodes),
     total_calls |-> Cardinality({ k \in DOMAIN graph.edges : graph.edges[k].callees # {} }),
     methods_with_callers |->
         Cardinality({ k \in DOMAIN graph.edges : graph.edges[k].callers # {} }),
     methods_with_callees |->
         Cardinality({ k \in DOMAIN graph.edges : graph.edges[k].callees # {} })]

get_stats(graph) ==
    [total_methods |-> Cardinality(DOMAIN graph.nodes),
     total_calls |-> total_calls(graph),
     methods_with_callers |->
         Cardinality({ k \in DOMAIN graph.edges : graph.edges[k].callers # {} }),
     methods_with_callees |->
         Cardinality({ k \in DOMAIN graph.edges : graph.edges[k].callees # {} })]

\* save(): every set is written as a list, in the iteration order ord.
save(graph, ord) ==
    [metadata       |-> [total_methods |-> Cardinality(DOMAIN graph.nodes),
                         total_calls   |-> total_calls(graph)],
     methods        |-> graph.nodes,
     call_hierarchy |-> [method \in DOMAIN graph.edges |->
                            [callers |-> list(graph.edges[method].callers, ord),
                             callees |-> list(graph.edges[method].callees, ord)]]]

\* load() that keeps the call hierarchy of indexed methods only.
load_indexed_only(data) ==
    [nodes |-> data.methods,
     edges |-> [method \in DOMAIN data.call_hierarchy \cap DOMAIN data.methods |->
                   [callers |-> Range(data.call_hierarchy[method].callers),
                    callees |-> Range(data.call_hierarchy[method].callees)]]]

\* load(): the lists become sets again.
load(data) ==
    [nodes |-> data.methods,
     edges |-> [method \in DOMAIN data.call_hierarchy |->
                   [callers |-> Range(data.call_hierarchy[method].callers),
                    callees |-> Range(data.call_hierarchy[method].callees)]]]

\* Nothing saved yet.
NoDocument == [metadata |-> <<>>, methods |-> <<>>, call_hierarchy |-> <<>>]

\* No CallGraph operation performed yet.
Idle == [op |-> "none", name |-> <<>>, outcome |-> "none"]

\* No analyze_file call is waiting.
NoRequest == [file_path |-> <<>>, modified_lines |-> {}, waiting |-> FALSE]

\* analyze_file has not returned yet.
NoAnalysis ==
    [file_path |-> <<>>, modified_lines |-> {}, affected_methods |-> <<>>,
     method_line_map |-> <<>>,
     method_calls |-> [callers |-> <<>>, callees |-> <<>>]]

\* JavaASTExtractor.__init__: empty index and caches, no project scanned.
ExtractorAtRest ==
    /\ project = <<>>
    /\ method_index = <<>>
    /\ import_cache = <<>>
    /\ file_pos = 0
    /\ processed_files = {}
    /\ calls_done = {}
    /\ request = NoRequest
    /\ analysis = NoAnalysis

---------------------------------------------------------------------------
(* parse_diff *)

isdigit(c) == c \in { "0","1","2","3","4","5","6","7","8","9" }

digit_value(c) ==
    CASE c = "0" -> 0 [] c = "1" -> 1 [] c = "2" -> 2 [] c = "3" -> 3
      [] c = "4" -> 4 [] c = "5" -> 5 [] c = "6" -> 6 [] c = "7" -> 7
      [] c = "8" -> 8 [] c = "9" -> 9

\* int(digits)
RECURSIVE int(_)
int(digits) ==
    IF digits = <<>> THEN 0
    ELSE 10 * int(SubSeq(digits, 1, Len(digits) - 1)) + digit_value(digits[Len(digits)])

drop(s, n) == SubSeq(s, n + 1, Len(s))

\* Length of the longest run of digits at the start of s (\d+ is greedy).
RECURSIVE digits_at(_)
digits_at(s) ==
    IF s # <<>> /\ isdigit(s[1]) THEN 1 + digits_at(Tail(s)) ELSE 0

\* s after an optional (?:,\d+)? at its start.
after_count(s) ==
    IF s # <<>> /\ s[1] = "," /\ digits_at(Tail(s)) > 0
    THEN drop(s, 1 + digits_at(Tail(s)))
    ELSE s

\* (.+?) followed by a space: the end of the shortest non-empty group, 0 if none.
group_end(s) ==
    IF \E i \in 2..Len(s) : s[i] = " "
    THEN (CHOOSE i \in 2..Len(s) : s[i] = " " /\ \A j \in 2..(i - 1) : s[j] # " ") - 1
    ELSE 0

\* file_pattern.match(line): r'diff --git (?:src://)?(.+?) (?:dst://)?.*'
\* gives [matched, group1].
file_pattern_match(line) ==
    LET head == <<"d","i","f","f"," ","-","-","g","i","t"," ">>
        mark == <<"s","r","c",":","/","/">>
        rest == drop(line, Len(head))
        bare == drop(rest, Len(mark))
    IN  IF ~startswith(line, head) THEN [matched |-> FALSE, group1 |-> <<>>]
        ELSE IF startswith(rest, mark) /\ group_end(bare) > 0
        THEN [matched |-> TRUE, group1 |-> SubSeq(bare, 1, group_end(bare))]
        ELSE IF group_end(rest) > 0
        THEN [matched |-> TRUE, group1 |-> SubSeq(rest, 1, group_end(rest))]
        ELSE [matched |-> FALSE, group1 |-> <<>>]

\* hunk_pattern.match(line): r'@@ -\d+(?:,\d+)? \+(\d+)(?:,\d+)? @@'
\* gives [matched, group1].
hunk_pattern_match(line) ==
    LET head == <<"@","@"," ","-">>
        old  == drop(line, Len(head))
        s1   == after_count(drop(old, digits_at(old)))
        new  == drop(s1, 2)
        s2   == after_count(drop(new, digits_at(new)))
    IN  IF /\ startswith(line, head)
           /\ digits_at(old) > 0
           /\ startswith(s1, <<" ", "+">>)
           /\ digits_at(new) > 0
           /\ startswith(s2, <<" ", "@", "@">>)
        THEN [matched |-> TRUE, group1 |-> SubSeq(new, 1, digits_at(new))]
        ELSE [matched |-> FALSE, group1 |-> <<>>]

\* .replace('\\', os.path.sep).replace('/', os.path.sep), os.path.sep = '/'
normalize_separators(path) ==
    [i \in 1..Len(path) |-> IF path[i] = "\\" THEN "/" ELSE path[i]]

\* The path a file header names, with a leading 'src/' removed.
header_path(group1) ==
    LET path == normalize_separators(group1)
    IN  IF startswith(path, <<"s","r","c","/">>) THEN drop(path, 4) ELSE path

DiffStart ==
    [changes |-> <<>>, current_file |-> <<>>, current_line_number |-> 0,
     in_hunk |-> FALSE]

\* A removed line that also moves the counter on.
removed_line_advancing(st) ==
    [st EXCEPT !.changes[st.current_file] = @ \cup {st.current_line_number},
               !.current_line_number = @ + 1]

\* A removed line records the current position; the counter stays.
removed_line(st) ==
    [st EXCEPT !.changes[st.current_file] = @ \cup {st.current_line_number}]

added_line(st) ==
    [st EXCEPT !.changes[st.current_file] = @ \cup {st.current_line_number},
               !.current_line_number = @ + 1]

\* parse_line in which a file header does not end the current hunk.
parse_line_header_keeps_hunk(st, line) ==
    LET file_match == file_pattern_match(line)
        hunk_match == hunk_pattern_match(line)
    IN  IF file_match.matched
        THEN [st EXCEPT !.current_file = header_path(file_match.group1),
                        !.changes = Put(st.changes, header_path(file_match.group1), {})]
        ELSE IF hunk_match.matched
        THEN [st EXCEPT !.in_hunk = TRUE,
                        !.current_line_number = int(hunk_match.group1)]
        ELSE IF st.in_hunk /\ st.current_file # <<>>
        THEN IF startswith(line, <<"+">>) /\ ~startswith(line, <<"+", "+", "+">>)
             THEN added_line(st)
             ELSE IF startswith(line, <<"-">>) /\ ~startswith(line, <<"-", "-", "-">>)
             THEN removed_line(st)
             ELSE IF ~startswith(line, <<"\\">>)
             THEN [st EXCEPT !.current_line_number = @ + 1]
             ELSE st
        ELSE st

\* One iteration of the loop over diff_text.splitlines().
parse_line(st, line) ==
    LET file_match == file_pattern_match(line)
        hunk_match == hunk_pattern_match(line)
    IN  IF file_match.matched
        THEN [st EXCEPT !.current_file = header_path(file_match.group1),
                        !.changes = Put(st.changes, header_path(file_match.group1), {}),
                        !.in_hunk = FALSE]
        ELSE IF hunk_match.matched
        THEN [st EXCEPT !.in_hunk = TRUE,
                        !.current_line_number = int(hunk_match.group1)]
        ELSE IF st.in_hunk /\ st.current_file # <<>>
        THEN IF startswith(line, <<"+">>) /\ ~startswith(line, <<"+", "+", "+">>)
             THEN added_line(st)
             ELSE IF startswith(line, <<"-">>) /\ ~startswith(line, <<"-", "-", "-">>)
             THEN removed_line(st)
             ELSE IF ~startswith(line, <<"\\">>)
             THEN [st EXCEPT !.current_line_number = @ + 1]
             ELSE st
        ELSE st

\* The numbers of S from the greatest down.
RECURSIVE sorted_descending(_)
sorted_descending(S) ==
    IF S = {} THEN <<>>
    ELSE LET greatest == CHOOSE x \in S : \A y \in S : y <= x
         IN  <<greatest>> \o sorted_descending(S \ {greatest})

\* sorted(list(S))
RECURSIVE sorted(_)
sorted(S) ==
    IF S = {} THEN <<>>
    ELSE LET least == CHOOSE x \in S : \A y \in S : x <= y
         IN  <<least>> \o sorted(S \ {least})

\* The dict parse_diff returns (the 'modified_lines' list of every file).
sorted_modified_lines(changes) ==
    [file_path \in DOMAIN changes |-> sorted(changes[file_path])]

---------------------------------------------------------------------------
(* parse_diff run on a diff text that arrives line by line: a file header, *)
(* a hunk header, then at most MaxBody further lines of any kind, or the   *)
(* example diff of six body lines.  diff_text is the lines read so far;    *)
(* the text ends where ReturnChanges happens.                              *)

MaxBody == 4

FileHeaders ==
    { <<"d","i","f","f"," ","-","-","g","i","t"," ","s","r","c",":","/","/","s","r","c","/","A",".","j","a","v","a"," ","d","s","t",":","/","/","s","r","c","/","A",".","j","a","v","a">> }

HunkHeaders ==
    { <<"@","@"," ","-","1","0",",","3"," ","+","1","0",",","5"," ","@","@">>,
      <<"@","@"," ","-","1"," ","+","1"," ","@","@"," ","f","(",")">> }

ContextLine == <<" ","a">>
RemovedLine == <<"-","b">>
AddedLine   == <<"+","c">>
NoNewlineMarker == <<"\\"," ","N","o"," ","n","e","w","l","i","n","e"," ","a","t"," ","e","n","d"," ","o","f"," ","f","i","l","e">>
\* An added line whose text begins with '++'.
AddedPlusPlus == <<"+","+","+","i",";">>
\* A removed line whose text begins with '--'.
RemovedMinusMinus == <<"-","-","-","j",";">>

\* The header of a second file.
SecondFileHeader == <<"d","i","f","f"," ","-","-","g","i","t"," ","s","r","c",":","/","/","s","r","c","/","B",".","j","a","v","a"," ","d","s","t",":","/","/","s","r","c","/","B",".","j","a","v","a">>
\* A line that begins like a file header and lacks the second path.
MalformedFileHeader == <<"d","i","f","f"," ","-","-","g","i","t"," ","s","r","c",":","/","/","s","r","c","/","B",".","j","a","v","a">>
\* A line that begins like a hunk header and lacks the new-file range.
MalformedHunkHeader == <<"@","@"," ","-","1","0",",","3"," ","@","@">>
\* The header of a later hunk.
LaterHunkHeader == <<"@","@"," ","-","3","0",",","2"," ","+","4","0",",","2"," ","@","@">>

BodyLines ==
    { ContextLine, RemovedLine, AddedLine, NoNewlineMarker, AddedPlusPlus,
      RemovedMinusMinus, SecondFileHeader, MalformedFileHeader,
      MalformedHunkHeader, LaterHunkHeader }

\* One hunk that starts at line 10 of the new file: two context lines, one
\* removed line, three added lines.
ExampleDiff ==
    << CHOOSE f \in FileHeaders : TRUE,
       <<"@","@"," ","-","1","0",",","3"," ","+","1","0",",","5"," ","@","@">>,
       ContextLine, ContextLine, RemovedLine, AddedLine, AddedLine, AddedLine >>

\* text is the beginning of a diff text parse_diff is run on.
DiffTexts(text) ==
    \/ Len(text) <= Len(ExampleDiff) /\ text = SubSeq(ExampleDiff, 1, Len(text))
    \/ /\ Len(text) <= MaxBody + 2
       /\ Len(text) >= 1 => text[1] \in FileHeaders
       /\ Len(text) >= 2 => text[2] \in HunkHeaders
       /\ \A k \in 3..Len(text) : text[k] \in BodyLines

InitDiff ==
    /\ diff_text = <<>>
    /\ diff_pos = 0
    /\ diff_state = DiffStart
    /\ diff_result = <<>>
    /\ ExtractorAtRest
    /\ call_graph = EmptyGraph
    /\ last = Idle
    /\ pc = "diff"
    /\ document = NoDocument
    /\ restored = EmptyGraph

\* The loop body, for the next line of the text.
ReadLine ==
    /\ pc = "diff"
    /\ \E line \in FileHeaders \cup HunkHeaders \cup BodyLines :
          /\ DiffTexts(Append(diff_text, line))
          /\ diff_text' = Append(diff_text, line)
          /\ diff_state' = parse_line(diff_state, line)
    /\ diff_pos' = diff_pos + 1
    /\ UNCHANGED <<diff_result, pc, graph_vars_but_pc, index_vars>>

\* After the loop: the sets become sorted lists and the dict is returned.
ReturnChanges ==
    /\ pc = "diff"
    /\ diff_pos = Len(diff_text)
    /\ diff_result' = sorted_modified_lines(diff_state.changes)
    /\ pc' = "parsed"
    /\ UNCHANGED <<diff_text, diff_pos, diff_state, graph_vars_but_pc, index_vars>>

NextDiff == ReadLine \/ ReturnChanges

SpecDiff == InitDiff /\ [][NextDiff]_vars

---------------------------------------------------------------------------
(* A CallGraph session: any sequence of add_method and add_call on a graph *)
(* that starts empty, then save() and load() into a fresh CallGraph.       *)

MaxNodes == 2
MaxEdges == 2

\* Qualified names passed to add_call.
QNames ==
    { <<"p",".","A",".","f">>,          \* project methods
      <<"p",".","A",".","g">>,
      <<"f">>,              \* one segment only
      <<"j","a","v","a",".","u",".","f">>,       \* standard-library namespaces
      <<"c","o","m",".","s","u","n",".","f">>,
      <<"a","n","d","r","o","i","d",".","f">>,
      <<"p",".","S","t","r","i","n","g">>,       \* last segment is a common Java type
      <<"S","y","s","t","e","m",".","o","u","t",".","p">> }  \* standard method pattern

\* Qualified names passed to add_method (it never inspects the name).
MethodNames ==
    { <<"p",".","A",".","f">>, <<"p",".","A",".","g">>, <<"j","a","v","a",".","u",".","f">> }

MethodInfos ==
    { [name |-> <<"f">>, file_path |-> <<"A",".","j","a","v","a">>, class_name |-> <<"p",".","A">>,
       type |-> "method", modifiers |-> {"public"},
       signature |-> <<"public", " ", "void", " ", "f", "(", ")">>,
       start_line |-> 3, end_line |-> 5],
      [name |-> <<"g">>, file_path |-> <<"A",".","j","a","v","a">>, class_name |-> <<"p",".","A">>,
       type |-> "static_method", modifiers |-> {"static"},
       signature |-> <<>>],
      [file_path |-> <<"A",".","j","a","v","a">>, type |-> "method"] }

InitGraph ==
    /\ call_graph = EmptyGraph
    /\ last = Idle
    /\ pc = "build"
    /\ document = NoDocument
    /\ restored = EmptyGraph
    /\ diff_text = <<>>
    /\ diff_pos = 0
    /\ diff_state = DiffStart
    /\ diff_result = <<>>
    /\ ExtractorAtRest

AddMethod ==
    /\ pc = "build"
    /\ \E qualified_name \in MethodNames, method_info \in MethodInfos :
        /\ \/ qualified_name \in DOMAIN call_graph.nodes
           \/ Cardinality(DOMAIN call_graph.nodes) < MaxNodes
        /\ call_graph' = add_method(call_graph, qualified_name, method_info)
        /\ last' = [op |-> "add_method", name |-> qualified_name,
                    outcome |-> IF add_method_raises(method_info)
                                THEN "raised" ELSE "stored"]
    /\ UNCHANGED <<pc, document, restored, diff_vars, index_vars>>

AddCall ==
    /\ pc = "build"
    /\ \E caller \in QNames, callee \in QNames :
        LET after == add_call(call_graph, caller, callee)
        IN  /\ total_calls(after) <= MaxEdges
            /\ call_graph' = after
            /\ last' = [op |-> "add_call", name |-> <<>>,
                        outcome |-> IF is_excluded_prefix(caller)
                                       \/ is_excluded_prefix(callee)
                                    THEN "excluded_prefix"
                                    ELSE IF add_call_skips(caller, callee)
                                    THEN "standard_library" ELSE "added"]
    /\ UNCHANGED <<pc, document, restored, diff_vars, index_vars>>

\* The names held in some callers or callees set.
Members(graph) ==
    UNION { graph.edges[k].callers \cup graph.edges[k].callees : k \in DOMAIN graph.edges }

Save ==
    /\ pc = "build"
    /\ \E ord \in Orders(Members(call_graph)) :
        document' = save(call_graph, ord)
    /\ pc' = "saved"
    /\ last' = [op |-> "save", name |-> <<>>, outcome |-> "none"]
    /\ UNCHANGED <<call_graph, restored, diff_vars, index_vars>>

Load ==
    /\ pc = "saved"
    /\ restored' = load(document)
    /\ pc' = "loaded"
    /\ last' = [op |-> "load", name |-> <<>>, outcome |-> "none"]
    /\ UNCHANGED <<call_graph, document, diff_vars, index_vars>>

NextGraph == AddMethod \/ AddCall \/ Save \/ Load

SpecGraph == InitGraph /\ [][NextGraph]_vars

---------------------------------------------------------------------------
(* Java source files, as javalang.parse.parse presents them to the         *)
(* extractor.  A file is [path, parses, package, imports, types]; types is *)
(* every type declaration of the file in document order, top |-> TRUE for  *)
(* the members of tree.types.                                              *)

\* node.qualifier of a MethodInvocation: None, a str or a MemberReference.
NoQualifier == [kind |-> "None", value |-> <<>>]

StrQualifier(value) == [kind |-> "str", value |-> value]

MemberReference(member) == [kind |-> "MemberReference", value |-> member]

MethodInvocation(qualifier, member) ==
    [node |-> "MethodInvocation", qualifier |-> qualifier, member |-> member]

\* A ClassCreator; member is node.type.name.
ClassCreator(type_name) ==
    [node |-> "ClassCreator", qualifier |-> NoQualifier, member |-> type_name]

BasicType(name, dimensions) ==
    [basic |-> TRUE, name |-> name, dimensions |-> dimensions]

ReferenceType(name, dimensions) ==
    [basic |-> FALSE, name |-> name, dimensions |-> dimensions]

\* return_type of a void method or of a constructor (None).
NoType == [basic |-> TRUE, name |-> <<>>, dimensions |-> 0]

FormalParameter(type, name) == [type |-> type, name |-> name]

\* line is node.position.line (0: the node has no position); child_lines
\* are the lines of the positions met by node.filter(object) below the node.
MethodDeclaration(name, return_type, parameters, modifiers, line, child_lines, body) ==
    [node |-> "MethodDeclaration", name |-> name, return_type |-> return_type,
     parameters |-> parameters, modifiers |-> modifiers,
     line |-> line, child_lines |-> child_lines, body |-> body]

ConstructorDeclaration(name, parameters, modifiers, line, child_lines, body) ==
    [node |-> "ConstructorDeclaration", name |-> name, return_type |-> NoType,
     parameters |-> parameters, modifiers |-> modifiers,
     line |-> line, child_lines |-> child_lines, body |-> body]

FieldDeclaration(type, name) == [type |-> type, name |-> name]

\* kind is "ClassDeclaration", "InterfaceDeclaration" or "EnumDeclaration".
TypeDeclaration(kind, name, top, fields, constructors, methods) ==
    [kind |-> kind, name |-> name, top |-> top, fields |-> fields,
     constructors |-> constructors, methods |-> methods]

\* What open() and javalang.parse.parse give for a path outside the project:
\* an exception.
NoFile == [path |-> <<>>, parses |-> FALSE, package |-> <<>>,
           imports |-> <<>>, types |-> <<>>]

\* The file of the project stored under file_path.
open(files, file_path) ==
    IF \E i \in 1..Len(files) : files[i].path = file_path
    THEN files[CHOOSE i \in 1..Len(files) : files[i].path = file_path]
    ELSE NoFile

---------------------------------------------------------------------------
(* JavaASTExtractor: the method index and the two passes *)

\* sub in s
contains(s, sub) ==
    \E i \in 0..(Len(s) - Len(sub)) : SubSeq(s, i + 1, i + Len(sub)) = sub

\* f"{a}.{b}"
dotted(a, b) == a \o <<".">> \o b

\* '.'.join(parts)
RECURSIVE join_dots(_)
join_dots(parts) ==
    IF parts = <<>> THEN <<>>
    ELSE IF Len(parts) = 1 THEN parts[1]
    ELSE dotted(parts[1], join_dots(Tail(parts)))

\* '<sep>'.join(parts) for a separator of several characters
RECURSIVE join_with(_, _)
join_with(sep, parts) ==
    IF parts = <<>> THEN <<>>
    ELSE IF Len(parts) = 1 THEN parts[1]
    ELSE parts[1] \o sep \o join_with(sep, Tail(parts))

\* re.sub(r'\.+', '.', s)
RECURSIVE collapse_dots(_)
collapse_dots(s) ==
    IF Len(s) <= 1 THEN s
    ELSE IF s[1] = "." /\ s[2] = "." THEN collapse_dots(Tail(s))
    ELSE <<s[1]>> \o collapse_dots(Tail(s))

\* s.rsplit('.', 1)[0]
rsplit_head(s) ==
    IF \E i \in 1..Len(s) : s[i] = "."
    THEN SubSeq(s, 1, (CHOOSE i \in 1..Len(s) :
                          s[i] = "." /\ \A j \in (i + 1)..Len(s) : s[j] # ".") - 1)
    ELSE s

\* f"{package_name}.{type_name}" if package_name else type_name
qualify(package_name, type_name) ==
    IF package_name # <<>> THEN dotted(package_name, type_name) ELSE type_name

\* base_type + '[]' * array_depth
RECURSIVE brackets(_)
brackets(n) == IF n = 0 THEN <<>> ELSE <<"[", "]">> \o brackets(n - 1)

_get_type_name(type_node) ==
    IF type_node.basic THEN type_node.name
    ELSE type_node.name \o brackets(type_node.dimensions)

Max(S) == CHOOSE x \in S : \A y \in S : y <= x

\* _find_node_end_line without the test for a missing position.
_find_node_end_line_of_children(node) ==
    Max({node.line} \cup node.child_lines)

\* _find_node_end_line giving the number of lines below the start line.
_find_node_end_line_as_length(node) ==
    IF node.line = 0 THEN 0 ELSE Max({node.line} \cup node.child_lines) - node.line

\* None (0) without a position, else the largest line met below the node.
_find_node_end_line(node) ==
    IF node.line = 0 THEN 0 ELSE Max({node.line} \cup node.child_lines)

\* sorted(modifiers)
sorted_modifiers(modifiers) ==
    list(modifiers, <<"abstract", "final", "private", "protected", "public",
                      "static", "synchronized">>)

_get_method_signature(method_node) ==
    LET modifiers_str == IF method_node.modifiers # {}
                         THEN join_words(sorted_modifiers(method_node.modifiers)) \o <<" ">>
                         ELSE <<>>
        return_type   == IF method_node.return_type.name # <<>>
                         THEN method_node.return_type.name \o <<" ">>
                         ELSE <<>>
        params        == [i \in 1..Len(method_node.parameters) |->
                             method_node.parameters[i].type.name \o <<" ">>
                                 \o method_node.parameters[i].name]
    IN  modifiers_str \o return_type \o method_node.name
            \o <<"(">> \o join_with(<<",", " ">>, params) \o <<")">>

\* The key and the method_info _process_file stores for a constructor.
constructor_entry(file_path, qualified_name, type_name, constructor) ==
    LET params == [i \in 1..Len(constructor.parameters) |->
                      _get_type_name(constructor.parameters[i].type)]
    IN  [key  |-> IF params # <<>>
                  THEN dotted(qualified_name, type_name) \o <<"#">>
                           \o join_with(<<"#">>, params)
                  ELSE dotted(qualified_name, type_name),
         info |-> [name       |-> type_name,
                   file_path  |-> file_path,
                   class_name |-> qualified_name,
                   type       |-> "constructor",
                   modifiers  |-> constructor.modifiers,
                   signature  |-> _get_method_signature(constructor),
                   start_line |-> constructor.line,
                   end_line   |-> _find_node_end_line(constructor)]]

\* The key and the method_info _process_file stores for a method.
method_entry(file_path, qualified_name, method) ==
    [key  |-> dotted(qualified_name, method.name),
     info |-> [name       |-> method.name,
               file_path  |-> file_path,
               class_name |-> qualified_name,
               type       |-> IF "abstract" \in method.modifiers THEN "abstract_method"
                              ELSE IF "static" \in method.modifiers THEN "static_method"
                              ELSE "method",
               modifiers  |-> method.modifiers,
               signature  |-> _get_method_signature(method),
               start_line |-> method.line,
               end_line   |-> _find_node_end_line(method)]]

\* What _process_file stores for one ClassDeclaration: its constructors, then
\* its methods.
class_entries(file, type_decl) ==
    LET qualified_name == qualify(file.package, type_decl.name)
    IN  [i \in 1..Len(type_decl.constructors) |->
            constructor_entry(file.path, qualified_name, type_decl.name,
                              type_decl.constructors[i])]
        \o [i \in 1..Len(type_decl.methods) |->
               method_entry(file.path, qualified_name, type_decl.methods[i])]

\* tree.filter(ClassDeclaration): every class of the file, nested ones too.
RECURSIVE file_entries(_, _)
file_entries(file, types) ==
    IF types = <<>> THEN <<>>
    ELSE (IF Head(types).kind = "ClassDeclaration"
          THEN class_entries(file, Head(types)) ELSE <<>>)
         \o file_entries(file, Tail(types))

\* self.method_index[key] = info; self.call_graph.add_method(key, info)
RECURSIVE store_entries(_, _)
store_entries(st, entries) ==
    IF entries = <<>> THEN st
    ELSE store_entries(
             [st EXCEPT !.method_index = Put(@, Head(entries).key, Head(entries).info),
                        !.call_graph = add_method(@, Head(entries).key, Head(entries).info)],
             Tail(entries))

\* The qualified name of the first member of tree.types, None (<<>>) if the
\* file has no type or does not parse.
_get_current_class(file) ==
    IF ~file.parses \/ \A i \in 1..Len(file.types) : ~file.types[i].top
    THEN <<>>
    ELSE qualify(file.package,
                 file.types[CHOOSE i \in 1..Len(file.types) :
                                /\ file.types[i].top
                                /\ \A j \in 1..(i - 1) : ~file.types[j].top].name)

\* Every FieldDeclaration of the tree, in document order.
RECURSIVE all_fields(_)
all_fields(types) ==
    IF types = <<>> THEN <<>> ELSE Head(types).fields \o all_fields(Tail(types))

\* field name -> type name, for the fields whose type is a ReferenceType (a
\* BasicType has no attribute 'value', so its field is left out).
RECURSIVE field_map(_, _)
field_map(field_types, fields) ==
    IF fields = <<>> THEN field_types
    ELSE field_map(IF ~Head(fields).type.basic
                   THEN Put(field_types, Head(fields).name, Head(fields).type.name)
                   ELSE field_types,
                   Tail(fields))

_get_field_types(file) == field_map(<<>>, all_fields(file.types))

\* simple name -> import path, then '__package__' -> package name.  An import
\* is its node.path as the sequence "for p in node.path" goes through.
RECURSIVE import_map(_, _)
import_map(imports, nodes) ==
    IF nodes = <<>> THEN imports
    ELSE import_map(IF Head(nodes) # <<>>
                    THEN Put(imports, Head(nodes)[Len(Head(nodes))], join_dots(Head(nodes)))
                    ELSE imports,
                    Tail(nodes))

\* The import cache after _get_cached_imports(file_path).
_get_cached_imports(cache, files, file_path) ==
    IF file_path \in DOMAIN cache THEN cache
    ELSE LET file == open(files, file_path)
             imports == import_map(<<>>, file.imports)
         IN  Put(cache, file_path,
                 IF ~file.parses THEN <<>>
                 ELSE IF file.package # <<>>
                 THEN Put(imports, <<"_","_","p","a","c","k","a","g","e","_","_">>, file.package)
                 ELSE imports)

\* The callee _resolve_method_call computes once the imports are at hand;
\* None is <<>>.
resolve_callee(node, current_type, field_types, imports) ==
    LET member    == node.member
        qualifier == node.qualifier.value
        current_package == rsplit_head(current_type)
        callee ==
            CASE node.qualifier.kind = "None" ->
                     dotted(current_type, member)
              [] node.qualifier.kind = "MemberReference" ->
                     IF qualifier \in DOMAIN field_types
                     THEN IF field_types[qualifier] \in DOMAIN imports
                          THEN dotted(imports[field_types[qualifier]], member)
                          ELSE dotted(field_types[qualifier], member)
                     ELSE IF qualifier \in DOMAIN imports
                          THEN dotted(imports[qualifier], member)
                          ELSE dotted(dotted(current_package, qualifier), member)
              [] node.qualifier.kind = "str" ->
                     IF qualifier \in DOMAIN imports
                     THEN dotted(imports[qualifier], member)
                     ELSE IF "." \in Range(qualifier)
                     THEN dotted(qualifier, member)
                     ELSE dotted(dotted(current_package, qualifier), member)
    IN  strip(collapse_dots(callee))

\* The method_info the second pass stores for a caller that the index lacks.
caller_info(file_path, current_type, method_decl) ==
    [name       |-> method_decl.name,
     file_path  |-> file_path,
     class_name |-> current_type,
     type       |-> "method",
     modifiers  |-> method_decl.modifiers,
     signature  |-> _get_method_signature(method_decl)]

\* The caller joins the index if it is missing; then add_call.
record_call(st, file_path, current_type, method_decl, callee) ==
    LET caller_method == dotted(current_type, method_decl.name)
        info == caller_info(file_path, current_type, method_decl)
        st1  == IF caller_method \in DOMAIN st.method_index THEN st
                ELSE [st EXCEPT !.method_index = Put(@, caller_method, info),
                                !.call_graph = add_method(@, caller_method, info)]
    IN  [st1 EXCEPT !.call_graph = add_call(@, caller_method, callee)]

\* One MethodInvocation of the second pass.  self.method_index[current_type]
\* raises KeyError unless some method key equals the type name; the call is
\* then resolved to None.
process_invocation(st, files, file_path, current_type, field_types, method_decl, node) ==
    IF current_type \notin DOMAIN st.method_index THEN st
    ELSE LET imports_file == st.method_index[current_type].file_path
             cache  == _get_cached_imports(st.import_cache, files, imports_file)
             callee == resolve_callee(node, current_type, field_types, cache[imports_file])
             st1    == [st EXCEPT !.import_cache = cache]
         IN  IF callee = <<>> THEN st1
             ELSE record_call(st1, file_path, current_type, method_decl, callee)

\* One ClassCreator of the second pass.
process_creator(st, files, file_path, current_type, field_types, method_decl, node) ==
    LET callee_class == node.member
        cache   == IF callee_class \in DOMAIN field_types THEN st.import_cache
                   ELSE _get_cached_imports(st.import_cache, files, file_path)
        callee  == IF callee_class \in DOMAIN field_types
                   THEN dotted(field_types[callee_class], callee_class)
                   ELSE IF callee_class \in DOMAIN cache[file_path]
                   THEN dotted(cache[file_path][callee_class], callee_class)
                   ELSE dotted(dotted(rsplit_head(current_type), callee_class), callee_class)
    IN  record_call([st EXCEPT !.import_cache = cache],
                    file_path, current_type, method_decl, callee)

\* The pairs <<declaration, node>> of tree.filter(kind) that have a parent
\* method or constructor, in document order.
RECURSIVE body_nodes(_, _)
body_nodes(declarations, kind) ==
    IF declarations = <<>> THEN <<>>
    ELSE LET d == Head(declarations)
             found == SelectSeq(d.body, LAMBDA n : n.node = kind)
         IN  [i \in 1..Len(found) |-> [method_decl |-> d, node |-> found[i]]]
             \o body_nodes(Tail(declarations), kind)

\* Every constructor and method declaration of the tree.
RECURSIVE all_declarations(_)
all_declarations(types) ==
    IF types = <<>> THEN <<>>
    ELSE Head(types).constructors \o Head(types).methods \o all_declarations(Tail(types))

RECURSIVE process_nodes(_, _, _, _, _, _)
process_nodes(st, files, file_path, current_type, field_types, nodes) ==
    IF nodes = <<>> THEN st
    ELSE process_nodes(
             IF Head(nodes).node.node = "MethodInvocation"
             THEN process_invocation(st, files, file_path, current_type, field_types,
                                     Head(nodes).method_decl, Head(nodes).node)
             ELSE process_creator(st, files, file_path, current_type, field_types,
                                  Head(nodes).method_decl, Head(nodes).node),
             files, file_path, current_type, field_types, Tail(nodes))

\* The second pass on one file: every MethodInvocation, then every
\* ClassCreator.
_process_file_calls(st, files, file) ==
    LET current_type == _get_current_class(file)
        declarations == all_declarations(file.types)
    IN  IF current_type = <<>> THEN st
        ELSE process_nodes(st, files, file.path, current_type, _get_field_types(file),
                           body_nodes(declarations, "MethodInvocation")
                               \o body_nodes(declarations, "ClassCreator"))

\* _process_file that resolves the calls of the file as soon as it is
\* indexed.
_process_file_and_calls(st, file) ==
    IF ~file.parses THEN st
    ELSE _process_file_calls(store_entries(st, file_entries(file, file.types)),
                             <<file>>, file)

\* _process_file whose failure on one file discards what the other files
\* stored.
_process_file_failure_resets(st, file) ==
    IF ~file.parses
    THEN [st EXCEPT !.method_index = <<>>, !.call_graph = EmptyGraph]
    ELSE store_entries(st, file_entries(file, file.types))

\* st is [method_index, call_graph, import_cache].  A file that cannot be
\* read or parsed raises before anything is stored; the exception is logged.
_process_file(st, file) ==
    IF ~file.parses THEN st
    ELSE store_entries(st, file_entries(file, file.types))

---------------------------------------------------------------------------
(* JavaASTExtractor: the impact mapper *)

\* The declarations find_methods_by_lines visits: every MethodDeclaration
\* of the tree, then every ConstructorDeclaration.
RECURSIVE declarations_of(_, _)
declarations_of(types, kind) ==
    IF types = <<>> THEN <<>>
    ELSE (IF kind = "MethodDeclaration"
          THEN Head(types).methods ELSE Head(types).constructors)
         \o declarations_of(Tail(types), kind)

\* "if start_line and end_line": the declaration has a position.
has_lines(node) == node.line # 0 /\ _find_node_end_line(node) # 0

\* "start_line <= line <= end_line" for some modified line
is_hit(node, modified_lines) ==
    \E line \in modified_lines :
        node.line <= line /\ line <= _find_node_end_line(node)

\* method_line_map[qualified_name] = {start_line, end_line}, a later
\* declaration of the same name replacing an earlier one.
RECURSIVE line_map(_, _, _)
line_map(method_line_map, current_type, declarations) ==
    IF declarations = <<>> THEN method_line_map
    ELSE line_map(IF has_lines(Head(declarations))
                  THEN Put(method_line_map,
                           dotted(current_type, Head(declarations).name),
                           [start_line |-> Head(declarations).line,
                            end_line   |-> _find_node_end_line(Head(declarations))])
                  ELSE method_line_map,
                  current_type, Tail(declarations))

\* set(affected_methods) and method_line_map; an unreadable file or a file
\* without a type gives [], {}.
find_methods_by_lines(files, file_path, modified_lines) ==
    LET file == open(files, file_path)
        current_type == _get_current_class(file)
        declarations == declarations_of(file.types, "MethodDeclaration")
                            \o declarations_of(file.types, "ConstructorDeclaration")
    IN  IF ~file.parses \/ current_type = <<>>
        THEN [affected_methods |-> {}, method_line_map |-> <<>>]
        ELSE [affected_methods |->
                  { dotted(current_type, declarations[i].name) :
                      i \in { j \in 1..Len(declarations) :
                                /\ has_lines(declarations[j])
                                /\ is_hit(declarations[j], modified_lines) } },
              method_line_map |-> line_map(<<>>, current_type, declarations)]

\* _get_complete_call_relations with the two directions exchanged.
_get_complete_call_relations_swapped(graph, affected_methods, ord) ==
    [callers |-> [method_name \in affected_methods |->
                     list(get_callees(graph, method_name), ord)],
     callees |-> [method_name \in affected_methods |->
                     list(get_callers(graph, method_name), ord)]]

\* callers and callees of every affected method, each set as a list in the
\* iteration order ord; a name without an edges entry gets empty lists.
_get_complete_call_relations(graph, affected_methods, ord) ==
    [callers |-> [method_name \in affected_methods |->
                     list(get_callers(graph, method_name), ord)],
     callees |-> [method_name \in affected_methods |->
                     list(get_callees(graph, method_name), ord)]]

\* The names whose order in a list the result of analyze_file depends on.
listed_names(graph, files, file_path, modified_lines) ==
    LET affected == find_methods_by_lines(files, file_path, modified_lines).affected_methods
    IN  affected \cup UNION { get_callers(graph, m) \cup get_callees(graph, m) :
                                m \in affected }

\* What analyze_file returns once the index is built; list(set(...)) comes
\* out in the iteration order ord.
analyze_file(graph, files, file_path, modified_lines, ord) ==
    LET found == find_methods_by_lines(files, file_path, modified_lines)
    IN  [file_path        |-> file_path,
         modified_lines   |-> modified_lines,
         affected_methods |-> list(found.affected_methods, ord),
         method_line_map  |-> found.method_line_map,
         method_calls     |-> _get_complete_call_relations(
                                  graph, found.affected_methods, ord)]

---------------------------------------------------------------------------
(* The projects the extractor is run on *)

\* How the parser's tree presents a call without qualifier, a qualifier
\* name and an import path.  javalang gives '' (a str), a str, and the
\* dotted path as one str, which "for p in node.path" takes apart into
\* characters; the branches of _resolve_method_call and _get_cached_imports
\* are written for None, a MemberReference and a list of identifiers.
Presentations ==
    { [unqualified |-> StrQualifier(<<>>), named |-> "str", import |-> "str"],
      [unqualified |-> NoQualifier, named |-> "MemberReference", import |-> "list"] }

Qualifier(t, name) ==
    IF t.named = "str" THEN StrQualifier(name) ELSE MemberReference(name)

ImportPath(t, identifiers) ==
    IF t.import = "list" THEN identifiers
    ELSE [i \in 1..Len(join_dots(identifiers)) |-> <<join_dots(identifiers)[i]>>]

\*  1  package p;
\*  2  class A {
\*  3    void f() { g(); }
\*  4    void g() { }
\*  5  }
A_java(t) ==
    [path |-> <<"A",".","j","a","v","a">>, parses |-> TRUE, package |-> <<"p">>, imports |-> <<>>,
     types |-> << TypeDeclaration("ClassDeclaration", <<"A">>, TRUE, <<>>, <<>>,
         << MethodDeclaration(<<"f">>, NoType, <<>>, {}, 3, {3},
                              << MethodInvocation(t.unqualified, <<"g">>) >>),
            MethodDeclaration(<<"g">>, NoType, <<>>, {}, 4, {}, <<>>) >>) >>]

\*  1  class p {
\*  2    void A() { }
\*  3    void L() { }
\*  4    void X() { }
\*  5  }
p_java ==
    [path |-> <<"p",".","j","a","v","a">>, parses |-> TRUE, package |-> <<>>, imports |-> <<>>,
     types |-> << TypeDeclaration("ClassDeclaration", <<"p">>, TRUE, <<>>, <<>>,
         << MethodDeclaration(<<"A">>, NoType, <<>>, {}, 2, {}, <<>>),
            MethodDeclaration(<<"L">>, NoType, <<>>, {}, 3, {}, <<>>),
            MethodDeclaration(<<"X">>, NoType, <<>>, {}, 4, {}, <<>>) >>) >>]

\*  1  package p;
\*  2  import java.util.List;
\*  3  class L {
\*  4    List list;
\*  5    int n() { return list.size(); }
\*  6    public String s() { return toString(); }
\*  7  }
L_java(t) ==
    [path |-> <<"L",".","j","a","v","a">>, parses |-> TRUE, package |-> <<"p">>,
     imports |-> << ImportPath(t, <<<<"j","a","v","a">>, <<"u","t","i","l">>, <<"L","i","s","t">>>>) >>,
     types |-> << TypeDeclaration("ClassDeclaration", <<"L">>, TRUE,
         << FieldDeclaration(ReferenceType(<<"L","i","s","t">>, 0), <<"l","i","s","t">>) >>, <<>>,
         << MethodDeclaration(<<"n">>, BasicType(<<"i","n","t">>, 0), <<>>, {}, 5, {5},
                              << MethodInvocation(Qualifier(t, <<"l","i","s","t">>), <<"s","i","z","e">>) >>),
            MethodDeclaration(<<"s">>, ReferenceType(<<"S","t","r","i","n","g">>, 0), <<>>, {"public"}, 6, {6},
                              << MethodInvocation(t.unqualified, <<"t","o","S","t","r","i","n","g">>) >>) >>) >>]

\*  1  package p;
\*  2  import q.Foo;
\*  3  class X {
\*  4    Bar x;
\*  5    void h(Foo x) { x.m(); }
\*  6    static X make() { return new X(); }
\*  7  }
X_java(t) ==
    [path |-> <<"X",".","j","a","v","a">>, parses |-> TRUE, package |-> <<"p">>,
     imports |-> << ImportPath(t, <<<<"q">>, <<"F","o","o">>>>) >>,
     types |-> << TypeDeclaration("ClassDeclaration", <<"X">>, TRUE,
         << FieldDeclaration(ReferenceType(<<"B","a","r">>, 0), <<"x">>) >>, <<>>,
         << MethodDeclaration(<<"h">>, NoType,
                              << FormalParameter(ReferenceType(<<"F","o","o">>, 0), <<"x">>) >>,
                              {}, 5, {5},
                              << MethodInvocation(Qualifier(t, <<"x">>), <<"m">>) >>),
            MethodDeclaration(<<"m","a","k","e">>, ReferenceType(<<"X">>, 0), <<>>, {"static"}, 6, {6},
                              << ClassCreator(<<"X">>) >>) >>) >>]

\*  1  package p;
\*  3  class S {
\*  5    S() {                 ...   7  }
\*  9    S(String s) {         ...  11  }
\* 20    void m() {            ...  35  }
\* 40    void m(int i) {       ...  45  }
\* 46  }
S_java ==
    [path |-> <<"S",".","j","a","v","a">>, parses |-> TRUE, package |-> <<"p">>, imports |-> <<>>,
     types |-> << TypeDeclaration("ClassDeclaration", <<"S">>, TRUE, <<>>,
         << ConstructorDeclaration(<<"S">>, <<>>, {}, 5, {6, 7}, <<>>),
            ConstructorDeclaration(<<"S">>,
                << FormalParameter(ReferenceType(<<"S","t","r","i","n","g">>, 0), <<"s">>) >>,
                {}, 9, {9, 10, 11}, <<>>) >>,
         << MethodDeclaration(<<"m">>, NoType, <<>>, {}, 20, {21, 35}, <<>>),
            MethodDeclaration(<<"m">>, NoType,
                << FormalParameter(BasicType(<<"i","n","t">>, 0), <<"i">>) >>,
                {}, 40, {40, 45}, <<>>) >>) >>]

\*  1  package p;
\*  2  class N {
\*  4    N(int k) { }
\*  5    N(int[] ks) { }
\* 10    private final void a() { new N(1); }
\* 19    class In {
\* 20      static void b() { new N(2); }
\* 21    }
\* 22  }
\* 35  abstract class M { protected abstract void c(); }
N_java ==
    [path |-> <<"N",".","j","a","v","a">>, parses |-> TRUE, package |-> <<"p">>, imports |-> <<>>,
     types |-> <<
         TypeDeclaration("ClassDeclaration", <<"N">>, TRUE, <<>>,
             << ConstructorDeclaration(<<"N">>,
                    << FormalParameter(BasicType(<<"i","n","t">>, 0), <<"k">>) >>, {}, 4, {4}, <<>>),
                ConstructorDeclaration(<<"N">>,
                    << FormalParameter(BasicType(<<"i","n","t">>, 1), <<"k","s">>) >>, {}, 5, {5}, <<>>) >>,
             << MethodDeclaration(<<"a">>, NoType, <<>>, {"private", "final"}, 10, {10},
                                  << ClassCreator(<<"N">>) >>) >>),
         TypeDeclaration("ClassDeclaration", <<"I","n">>, FALSE, <<>>, <<>>,
             << MethodDeclaration(<<"b">>, NoType, <<>>, {"static"}, 20, {20},
                                  << ClassCreator(<<"N">>) >>) >>),
         TypeDeclaration("ClassDeclaration", <<"M">>, TRUE, <<>>, <<>>,
             << MethodDeclaration(<<"c">>, NoType, <<>>, {"protected", "abstract"}, 35, {},
                                  <<>>) >>) >>]

\*  1  package p;
\*  3  interface I {
\*  4    void run();
\*  5  }
\*  9  enum E {
\* 10    ONE;
\* 19    E() { }
\* 20    int v() { return 1; }
\* 21  }
\* 35  class K {
\* 36    void q() { return; }       q itself carries no position, its
\* 37  }                            return statement is on line 36
I_java ==
    [path |-> <<"I",".","j","a","v","a">>, parses |-> TRUE, package |-> <<"p">>, imports |-> <<>>,
     types |-> <<
         TypeDeclaration("InterfaceDeclaration", <<"I">>, TRUE, <<>>, <<>>,
             << MethodDeclaration(<<"r","u","n">>, NoType, <<>>, {}, 4, {}, <<>>) >>),
         TypeDeclaration("EnumDeclaration", <<"E">>, TRUE, <<>>,
             << ConstructorDeclaration(<<"E">>, <<>>, {}, 19, {}, <<>>) >>,
             << MethodDeclaration(<<"v">>, BasicType(<<"i","n","t">>, 0), <<>>, {}, 20, {20},
                                  <<>>) >>),
         TypeDeclaration("ClassDeclaration", <<"K">>, TRUE, <<>>, <<>>,
             << MethodDeclaration(<<"q">>, NoType, <<>>, {}, 0, {36}, <<>>) >>) >>]

\*  1  package p;
\*  2  import q.Foo;
\*  3  class Q {
\*  4    void r() { Foo.m(); a.b.C.m(); Other.m(); }
\*  5  }
Q_java(t) ==
    [path |-> <<"Q",".","j","a","v","a">>, parses |-> TRUE, package |-> <<"p">>,
     imports |-> << ImportPath(t, <<<<"q">>, <<"F","o","o">>>>) >>,
     types |-> << TypeDeclaration("ClassDeclaration", <<"Q">>, TRUE, <<>>, <<>>,
         << MethodDeclaration(<<"r">>, NoType, <<>>, {}, 4, {4},
                              << MethodInvocation(Qualifier(t, <<"F","o","o">>), <<"m">>),
                                 MethodInvocation(Qualifier(t, <<"a",".","b",".","C">>), <<"m">>),
                                 MethodInvocation(Qualifier(t, <<"O","t","h","e","r">>), <<"m">>) >>) >>) >>]

\*  1  import q.Foo;
\*  2  class p {
\*  4    void Q() { Other.m(); }
\*  5  }
d_p_java(t) ==
    [path |-> <<"d","/","p",".","j","a","v","a">>, parses |-> TRUE, package |-> <<>>,
     imports |-> << ImportPath(t, <<<<"q">>, <<"F","o","o">>>>) >>,
     types |-> << TypeDeclaration("ClassDeclaration", <<"p">>, TRUE, <<>>, <<>>,
         << MethodDeclaration(<<"Q">>, NoType, <<>>, {}, 4, {4},
                              << MethodInvocation(Qualifier(t, <<"O","t","h","e","r">>), <<"m">>) >>) >>) >>]

\* A file javalang cannot parse.
Bad_java ==
    [path |-> <<"B","a","d",".","j","a","v","a">>, parses |-> FALSE, package |-> <<>>, imports |-> <<>>,
     types |-> <<>>]

\*  1  package p;
package_info_java ==
    [path |-> <<"p","a","c","k","a","g","e","-","i","n","f","o",".","j","a","v","a">>, parses |-> TRUE, package |-> <<"p">>,
     imports |-> <<>>, types |-> <<>>]

Projects ==
    UNION { { <<A_java(t)>>, <<A_java(t), p_java>>,
              <<L_java(t), p_java>>, <<X_java(t), p_java>>,
              <<Q_java(t), d_p_java(t)>> } : t \in Presentations }
    \cup { <<package_info_java, Bad_java, S_java>>, <<N_java, Bad_java>>,
           <<I_java>> }

\* A path that is in no project.
MissingPath == <<"Z",".","j","a","v","a">>

\* Line numbers a diff can name, and how many of them one call is given.
Lines == {4, 10, 20, 35, 36}

MaxModified == 2

ModifiedLineSets == { m \in SUBSET Lines : Cardinality(m) <= MaxModified }

---------------------------------------------------------------------------
(* build_project_index and analyze_file on one project *)

InitIndex ==
    /\ project \in Projects
    /\ method_index = <<>>
    /\ import_cache = <<>>
    /\ file_pos = 0
    /\ processed_files = {}
    /\ calls_done = {}
    /\ request = NoRequest
    /\ analysis = NoAnalysis
    /\ call_graph = EmptyGraph
    /\ last = Idle
    /\ pc = "new"
    /\ document = NoDocument
    /\ restored = EmptyGraph
    /\ diff_text = <<>>
    /\ diff_pos = 0
    /\ diff_state = DiffStart
    /\ diff_result = <<>>

\* _clear_caches and _get_java_files, at the start of build_project_index.
ClearCaches ==
    /\ method_index' = <<>>
    /\ import_cache' = <<>>
    /\ call_graph' = EmptyGraph
    /\ file_pos' = 0
    /\ processed_files' = {}
    /\ calls_done' = {}
    /\ pc' = IF project = <<>> THEN "calls" ELSE "index"

\* build_project_index is called; the result of an earlier analyze_file is
\* no longer looked at.
BuildProjectIndex ==
    /\ pc \in {"new", "done"}
    /\ ClearCaches
    /\ request' = NoRequest
    /\ analysis' = NoAnalysis
    /\ last' = [op |-> "build_project_index", name |-> <<>>, outcome |-> "none"]
    /\ UNCHANGED <<project, document, restored, diff_vars>>

\* analyze_file is called while the method index is empty: it builds the
\* index first.
AnalyzeFileBuilds ==
    /\ pc \in {"new", "done"}
    /\ method_index = <<>>
    /\ \E i \in 0..Len(project), modified_lines \in ModifiedLineSets :
          request' = [file_path |-> IF i = 0 THEN MissingPath ELSE project[i].path,
                      modified_lines |-> modified_lines, waiting |-> TRUE]
    /\ ClearCaches
    /\ analysis' = NoAnalysis
    /\ last' = [op |-> "analyze_file", name |-> request'.file_path,
                outcome |-> "builds"]
    /\ UNCHANGED <<project, document, restored, diff_vars>>

\* First pass, next file of java_files.  _process_file logs its own
\* exceptions, so the file joins processed_files whether it parsed or not.
ProcessFile ==
    /\ pc = "index"
    /\ file_pos < Len(project)
    /\ LET file == project[file_pos + 1]
           skip == \/ file.path \in processed_files
                   \/ contains(file.path, <<"p","a","c","k","a","g","e","-","i","n","f","o",".","j","a","v","a">>)
           st   == _process_file([method_index |-> method_index,
                                  call_graph |-> call_graph,
                                  import_cache |-> import_cache], file)
       IN  /\ method_index' = IF skip THEN method_index ELSE st.method_index
           /\ call_graph' = IF skip THEN call_graph ELSE st.call_graph
           /\ processed_files' = IF skip THEN processed_files
                                 ELSE processed_files \cup {file.path}
           /\ last' = [op |-> "_process_file", name |-> file.path,
                       outcome |-> IF skip THEN "skipped"
                                   ELSE IF file.parses THEN "indexed" ELSE "failed"]
    /\ file_pos' = file_pos + 1
    /\ pc' = IF file_pos + 1 = Len(project) THEN "calls" ELSE "index"
    /\ UNCHANGED <<project, import_cache, calls_done, request, analysis,
                   document, restored, diff_vars>>

\* Second pass, next file of the set processed_files (in its iteration
\* order, which is any order).
ProcessFileCalls ==
    /\ pc = "calls"
    /\ \E file_path \in processed_files \ calls_done :
          LET st == _process_file_calls([method_index |-> method_index,
                                         call_graph |-> call_graph,
                                         import_cache |-> import_cache],
                                        project, open(project, file_path))
          IN  /\ method_index' = st.method_index
              /\ call_graph' = st.call_graph
              /\ import_cache' = st.import_cache
              /\ calls_done' = calls_done \cup {file_path}
              /\ last' = [op |-> "_process_file_calls", name |-> file_path,
                          outcome |-> "none"]
    /\ UNCHANGED <<project, file_pos, processed_files, request, analysis, pc,
                   document, restored, diff_vars>>

\* The end of build_project_index: the call graph is saved.  A waiting
\* analyze_file goes on to map its lines.
SaveCallGraph ==
    /\ pc = "calls"
    /\ calls_done = processed_files
    /\ \E ord \in Orders(Members(call_graph)) :
          document' = save(call_graph, ord)
    /\ pc' = IF request.waiting THEN "map" ELSE "done"
    /\ last' = [op |-> "save", name |-> <<>>, outcome |-> "none"]
    /\ UNCHANGED <<project, method_index, import_cache, file_pos, processed_files,
                   calls_done, request, analysis, call_graph, restored, diff_vars>>

\* analyze_file, after the index it asked for is built.
MapRequest ==
    /\ pc = "map"
    /\ \E ord \in Orders(listed_names(call_graph, project, request.file_path,
                                      request.modified_lines)) :
          analysis' = analyze_file(call_graph, project, request.file_path,
                                   request.modified_lines, ord)
    /\ request' = NoRequest
    /\ pc' = "done"
    /\ last' = [op |-> "analyze_file", name |-> request.file_path,
                outcome |-> "returned"]
    /\ UNCHANGED <<project, method_index, import_cache, file_pos, processed_files,
                   calls_done, call_graph, document, restored, diff_vars>>

\* analyze_file is called with the index in place.
AnalyzeFile ==
    /\ pc = "done"
    /\ method_index # <<>>
    /\ \E i \in 0..Len(project), modified_lines \in ModifiedLineSets :
          LET file_path == IF i = 0 THEN MissingPath ELSE project[i].path
          IN  /\ \E ord \in Orders(listed_names(call_graph, project, file_path,
                                                modified_lines)) :
                    analysis' = analyze_file(call_graph, project, file_path,
                                             modified_lines, ord)
              /\ last' = [op |-> "analyze_file", name |-> file_path,
                          outcome |-> "returned"]
    /\ UNCHANGED <<project, method_index, import_cache, file_pos, processed_files,
                   calls_done, request, call_graph, pc, document, restored,
                   diff_vars>>

\* The directories analyze_project can be given after a run on files: the
\* same one, or one that holds only the first of its files.
SrcRoots(files) ==
    {files} \cup { root \in Projects : Len(files) = 2 /\ root = <<files[1]>> }

\* analyze_project(src_root) is called: src_root is kept and java_files is
\* listed; no index or cache is cleared.
AnalyzeProject ==
    /\ pc \in {"new", "done"}
    /\ project' \in SrcRoots(project)
    /\ file_pos' = 0
    /\ calls_done' = {}
    /\ analysis' = NoAnalysis
    /\ pc' = IF project' = <<>> THEN "project_calls" ELSE "project_index"
    /\ last' = [op |-> "analyze_project", name |-> <<>>, outcome |-> "none"]
    /\ UNCHANGED <<method_index, import_cache, processed_files, request,
                   call_graph, document, restored, diff_vars>>

\* First loop of analyze_project, next file of java_files.
AnalyzeProjectFile ==
    /\ pc = "project_index"
    /\ file_pos < Len(project)
    /\ LET file == project[file_pos + 1]
           skip == contains(file.path, <<"p","a","c","k","a","g","e","-","i","n","f","o",".","j","a","v","a">>)
           st   == _process_file([method_index |-> method_index,
                                  call_graph |-> call_graph,
                                  import_cache |-> import_cache], file)
       IN  /\ method_index' = IF skip THEN method_index ELSE st.method_index
           /\ call_graph' = IF skip THEN call_graph ELSE st.call_graph
           /\ last' = [op |-> "_process_file", name |-> file.path,
                       outcome |-> IF skip THEN "skipped"
                                   ELSE IF file.parses THEN "indexed" ELSE "failed"]
    /\ file_pos' = file_pos + 1
    /\ pc' = IF file_pos + 1 = Len(project) THEN "project_calls" ELSE "project_index"
    /\ UNCHANGED <<project, import_cache, processed_files, calls_done, request,
                   analysis, document, restored, diff_vars>>

\* The files the second loop of analyze_project has still to visit, as
\* positions in java_files.
calls_left ==
    { i \in 1..Len(project) :
        /\ ~contains(project[i].path, <<"p","a","c","k","a","g","e","-","i","n","f","o",".","j","a","v","a">>)
        /\ project[i].path \notin calls_done }

\* Second loop of analyze_project, next file of java_files.
AnalyzeProjectFileCalls ==
    /\ pc = "project_calls"
    /\ calls_left # {}
    /\ LET file == project[CHOOSE i \in calls_left : \A j \in calls_left : i <= j]
           st == _process_file_calls([method_index |-> method_index,
                                      call_graph |-> call_graph,
                                      import_cache |-> import_cache],
                                     project, file)
       IN  /\ method_index' = st.method_index
           /\ call_graph' = st.call_graph
           /\ import_cache' = st.import_cache
           /\ calls_done' = calls_done \cup {file.path}
           /\ last' = [op |-> "_process_file_calls", name |-> file.path,
                       outcome |-> "none"]
    /\ UNCHANGED <<project, file_pos, processed_files, request, analysis, pc,
                   document, restored, diff_vars>>

\* analyze_project returns self.call_graph.
AnalyzeProjectReturns ==
    /\ pc = "project_calls"
    /\ calls_left = {}
    /\ pc' = "done"
    /\ last' = [op |-> "analyze_project", name |-> <<>>, outcome |-> "returned"]
    /\ UNCHANGED <<project, method_index, import_cache, file_pos, processed_files,
                   calls_done, request, analysis, call_graph, document, restored,
                   diff_vars>>

Next ==
    \/ BuildProjectIndex
    \/ AnalyzeFileBuilds
    \/ ProcessFile
    \/ ProcessFileCalls
    \/ SaveCallGraph
    \/ MapRequest
    \/ AnalyzeFile
    \/ AnalyzeProject
    \/ AnalyzeProjectFile
    \/ AnalyzeProjectFileCalls
    \/ AnalyzeProjectReturns

Spec == InitIndex /\ [][Next]_vars

---------------------------------------------------------------------------
(* Properties of the CallGraph session (SpecGraph) *)

\* C1: after any sequence of add_method and add_call on a graph that starts
\* empty, for every pair of names A and B (A = B included), B is in
\* edges[A].callees if and only if A is in edges[B].callers.
C1_Symmetry ==
    \A a \in QNames \cup MethodNames, b \in QNames \cup MethodNames :
        (a \in DOMAIN call_graph.edges /\ b \in call_graph.edges[a].callees)
            <=> (b \in DOMAIN call_graph.edges /\ a \in call_graph.edges[b].callers)

\* add_method has stored a node for a name that add_call gave an edge before,
\* and the graph also holds a method calling itself.
C1_Witness ==
    /\ last.op = "add_method" /\ last.outcome = "stored"
    /\ get_callees(call_graph, last.name) # {}
    /\ \E a \in QNames : a \in get_callees(call_graph, a)

\* What a name holds in the graph: its edges entry and its memberships.
Holds(graph, n) ==
    [entry  |-> n \in DOMAIN graph.edges,
     caller |-> { k \in DOMAIN graph.edges : n \in graph.edges[k].callers },
     callee |-> { k \in DOMAIN graph.edges : n \in graph.edges[k].callees }]

\* C2: add_call validates both names against the qualified-name rule: a name
\* with fewer than two dot-separated segments (or with an empty or
\* non-identifier segment) makes the call be dropped, so that no add_call step
\* gives such a name an edges entry or a membership in a callers or callees set.
C2_InvalidNameGainsNothing ==
    [][last'.op = "add_call" =>
          \A n \in QNames :
              ~_is_valid_method_name(n) =>
                  Holds(call_graph', n) = Holds(call_graph, n)]_vars

\* C8: add_method on a qualified name that already has an edges entry replaces
\* only that name's node record: every callers set and every callees set, of
\* that name and of every other name, is the same after the call as before it,
\* whatever record is passed.
C8_AddMethodKeepsEdges ==
    [][(last'.op = "add_method" /\ last'.name \in DOMAIN call_graph.edges) =>
          /\ call_graph'.edges = call_graph.edges
          /\ DOMAIN call_graph'.nodes \subseteq DOMAIN call_graph.nodes \cup {last'.name}
          /\ \A m \in DOMAIN call_graph.nodes \ {last'.name} :
                 m \in DOMAIN call_graph'.nodes
                     /\ call_graph'.nodes[m] = call_graph.nodes[m]]_vars

\* add_method has stored a record for a name whose callers and callees sets
\* were filled before (add_method itself only creates empty sets).
C8_Witness ==
    /\ last.op = "add_method" /\ last.outcome = "stored"
    /\ get_callers(call_graph, last.name) # {}
    /\ get_callees(call_graph, last.name) # {}

\* C9: for any graph built by add_method and add_call, save() followed by
\* load() into a fresh CallGraph gives the same node names, the same edges keys
\* and for every key the same callers and callees sets, whatever the order in
\* which the set members were written.
C9_RoundTrip ==
    pc = "loaded" =>
        /\ DOMAIN restored.nodes = DOMAIN call_graph.nodes
        /\ DOMAIN restored.edges = DOMAIN call_graph.edges
        /\ \A k \in DOMAIN call_graph.edges :
               /\ restored.edges[k].callers = call_graph.edges[k].callers
               /\ restored.edges[k].callees = call_graph.edges[k].callees

\* A graph with an indexed method, an unindexed call target and a set of two
\* members has been saved and loaded.
C9_Witness ==
    /\ pc = "loaded"
    /\ DOMAIN call_graph.nodes # {}
    /\ DOMAIN call_graph.edges \ DOMAIN call_graph.nodes # {}
    /\ \E k \in DOMAIN document.call_hierarchy :
           Len(document.call_hierarchy[k].callees) >= 2

\* The excluded standard-library namespace prefixes C10 lists.
C10_Prefixes ==
    { <<"j","a","v","a",".">>, <<"j","a","v","a","x",".">>, <<"s","u","n",".">>, <<"c","o","m",".","s","u","n",".">>, <<"o","r","g",".","w","3","c",".">>,
      <<"o","r","g",".","x","m","l",".">>, <<"o","r","g",".","i","e","t","f",".">>, <<"o","r","g",".","o","m","g",".">>, <<"o","r","g",".","j","c","p",".">>,
      <<"a","n","d","r","o","i","d",".">> }

C10_Excluded(n) == \E prefix \in C10_Prefixes : startswith(n, prefix)

\* C10: after any sequence of add_method and add_call, no member of a callers
\* or callees set, and no name with a non-empty callers or callees set, begins
\* with an excluded standard-library namespace prefix.
C10_NoExcludedNamespace ==
    \A k \in DOMAIN call_graph.edges :
        /\ \A m \in call_graph.edges[k].callers \cup call_graph.edges[k].callees :
               ~C10_Excluded(m)
        /\ (call_graph.edges[k].callers \cup call_graph.edges[k].callees # {})
               => ~C10_Excluded(k)

\* An add_call naming a standard-library namespace has just been dropped, on a
\* graph that holds an edge and an indexed method of such a namespace.
C10_Witness ==
    /\ last.op = "add_call" /\ last.outcome = "excluded_prefix"
    /\ Members(call_graph) # {}
    /\ \E k \in DOMAIN call_graph.nodes : C10_Excluded(k)

---------------------------------------------------------------------------
(* Properties of parse_diff (SpecDiff) *)

\* One file, one hunk "@@ -10,3 +10,5 @@", then 2 context lines, 1 removed
\* line and 3 added lines.
C4_Diff ==
    << CHOOSE f \in FileHeaders : TRUE,
       <<"@","@"," ","-","1","0",",","3"," ","+","1","0",",","5"," ","@","@">>,
       ContextLine, ContextLine, RemovedLine, AddedLine, AddedLine, AddedLine >>

\* The key under which the file of FileHeaders is returned.
C4_File == <<"A",".","j","a","v","a">>

\* C4 as stated: for that diff parse_diff returns for the file exactly 4
\* modified line numbers (one for the removed position and one for each added
\* line), and every one of them is >= 10.
C4_FourEntries ==
    (pc = "parsed" /\ diff_text = C4_Diff) =>
        /\ C4_File \in DOMAIN diff_result
        /\ Len(diff_result[C4_File]) = 4
        /\ \A i \in 1..Len(diff_result[C4_File]) : diff_result[C4_File][i] >= 10

\* C4: for that diff parse_diff returns for the file exactly 3 modified line
\* numbers, 12, 13 and 14, every one of them >= 10: the removed line records
\* position 12 without advancing the counter, so the first added line records
\* 12 again and the two other added lines record 13 and 14.
C4_ThreeEntries ==
    (pc = "parsed" /\ diff_text = C4_Diff) =>
        /\ DOMAIN diff_result = {C4_File}
        /\ diff_result[C4_File] = <<12, 13, 14>>
        /\ \A i \in 1..Len(diff_result[C4_File]) : diff_result[C4_File][i] >= 10

\* parse_diff has returned for that diff, with the file among the keys.
C4_Witness ==
    /\ pc = "parsed"
    /\ diff_text = C4_Diff
    /\ C4_File \in DOMAIN diff_result
    /\ diff_state.in_hunk
    /\ diff_state.current_line_number = 15

---------------------------------------------------------------------------
(* Properties of the project index and the impact mapper (Spec) *)

\* Both passes of build_project_index have run over every file.
BothPassesDone == pc \in {"map", "done"} /\ calls_done = processed_files

\* C3: for a project whose file declares class A in package p with methods f
\* and g, where the body of f calls g() with no qualifier, after the index
\* pass and the call-resolution pass the callees of p.A.f are exactly {p.A.g}
\* and the callers of p.A.g are exactly {p.A.f}.
C3_EndToEnd ==
    (BothPassesDone /\ \E t \in Presentations : project = <<A_java(t)>>) =>
        /\ get_callees(call_graph, <<"p",".","A",".","f">>) = {<<"p",".","A",".","g">>}
        /\ get_callers(call_graph, <<"p",".","A",".","g">>) = {<<"p",".","A",".","f">>}

\* The name find_methods_by_lines gives a declaration of the file.
C5_ReportedName(file, declaration) ==
    dotted(_get_current_class(file), declaration.name)

\* C5: find_methods_by_lines reports a method or constructor declaration with
\* range [start, end] as affected if and only if some modified line L has
\* start <= L <= end, both boundaries inclusive.
C5_AffectedIffLineInRange ==
    (last.op = "analyze_file" /\ last.outcome = "returned") =>
        LET file == open(project, analysis.file_path)
            declarations == all_declarations(file.types)
        IN  \A i \in 1..Len(declarations) :
                has_lines(declarations[i]) =>
                    (C5_ReportedName(file, declarations[i])
                         \in Range(analysis.affected_methods)
                     <=> \E L \in analysis.modified_lines :
                             /\ declarations[i].line <= L
                             /\ L <= _find_node_end_line(declarations[i]))

\* Members of the generic-method exclusion set.
C6_GenericMethods == { <<"s","i","z","e">>, <<"t","o","S","t","r","i","n","g">>, <<"e","q","u","a","l","s">>, <<"i","t","e","r","a","t","o","r">> }

\* C6: a call to a member of the generic-method exclusion set never adds an
\* edge to the call graph during the call-resolution pass, whatever its
\* qualifier is or resolves to: no callee of the graph is such a member.
C6_NoEdgeToGenericMethod ==
    \A caller \in DOMAIN call_graph.edges :
        \A callee \in call_graph.edges[caller].callees :
            split(callee)[Len(split(callee))] \notin C6_GenericMethods

\* s.endswith(suffix)
C7_endswith(s, suffix) ==
    Len(suffix) <= Len(s) /\ SubSeq(s, Len(s) - Len(suffix) + 1, Len(s)) = suffix

\* C7: in a method with a parameter x of type Foo, inside a type with a field
\* x of type Bar, the call x.m() resolves to Foo.m and not to Bar.m: after
\* both passes the callees of the method are one name, which ends in Foo.m.
C7_LocalShadowsField ==
    (BothPassesDone /\ \E t \in Presentations, i \in 1..Len(project) :
                           project[i] = X_java(t)) =>
        /\ get_callees(call_graph, <<"p",".","X",".","h">>) # {}
        /\ \A callee \in get_callees(call_graph, <<"p",".","X",".","h">>) :
               /\ C7_endswith(callee, <<"F","o","o",".","m">>)
               /\ ~C7_endswith(callee, <<"B","a","r",".","m">>)

\* analyze_file has just returned its result.
AnalysisReturned == last.op = "analyze_file" /\ last.outcome = "returned"

\* C11: in the result of analyze_file every affected name has a callers list
\* and a callees list; for a name with no entry in the call graph both lists
\* are empty, and for a name with an entry they hold exactly the members of
\* its callers set and of its callees set, each once.
C11_RelationsOfAffected ==
    AnalysisReturned =>
        LET calls == analysis.method_calls
            names == Range(analysis.affected_methods)
        IN  /\ DOMAIN calls.callers = names
            /\ DOMAIN calls.callees = names
            /\ \A name \in names :
                   /\ name \notin DOMAIN call_graph.edges =>
                          calls.callers[name] = <<>> /\ calls.callees[name] = <<>>
                   /\ name \in DOMAIN call_graph.edges =>
                          /\ Range(calls.callers[name]) = call_graph.edges[name].callers
                          /\ Range(calls.callees[name]) = call_graph.edges[name].callees
                   /\ Len(calls.callers[name]) = Cardinality(Range(calls.callers[name]))
                   /\ Len(calls.callees[name]) = Cardinality(Range(calls.callees[name]))

\* C11 happens: one result reports a name the call graph has no entry for
\* and a name whose entry has a callee.
C11_Witness ==
    /\ AnalysisReturned
    /\ \E name \in Range(analysis.affected_methods) :
           name \notin DOMAIN call_graph.edges
    /\ \E name \in Range(analysis.affected_methods) :
           /\ name \in DOMAIN call_graph.edges
           /\ call_graph.edges[name].callees # {}
           /\ analysis.method_calls.callees[name] # <<>>

\* The files of the project that the build reads and parses.
ParsedFiles ==
    { project[i] : i \in { j \in 1..Len(project) :
                             /\ project[j].parses
                             /\ ~contains(project[j].path, <<"p","a","c","k","a","g","e","-","i","n","f","o",".","j","a","v","a">>) } }

\* C12: when one file of the project cannot be read or parsed, the build
\* still completes with every other file indexed and its calls resolved:
\* each of its declarations' keys is in the method index and is a node of the
\* call graph, and running the call pass on the file again adds nothing.
C12_OtherFilesIndexed ==
    (BothPassesDone /\ \E i \in 1..Len(project) : ~project[i].parses) =>
        \A file \in ParsedFiles :
            LET entries == file_entries(file, file.types)
                st == [method_index |-> method_index, call_graph |-> call_graph,
                       import_cache |-> import_cache]
            IN  /\ file.path \in processed_files
                /\ file.path \in calls_done
                /\ \A i \in 1..Len(entries) :
                       /\ entries[i].key \in DOMAIN method_index
                       /\ entries[i].key \in DOMAIN call_graph.nodes
                /\ _process_file_calls(st, project, file) = st

\* C12 happens: a build is complete on a project with an unparseable file
\* that comes after a file whose methods and calls are in the graph.
C12_Witness ==
    /\ pc = "done"
    /\ project = <<N_java, Bad_java>>
    /\ calls_done = {N_java.path, Bad_java.path}
    /\ <<"p",".","N",".","a">> \in DOMAIN method_index
    /\ get_callees(call_graph, <<"p",".","N",".","a">>) = {<<"p",".","N",".","N">>}

\* The key C13 gives a constructor: <package>.<Type>.<Type>, followed for a
\* constructor with parameters by '#' and its parameter type names as
\* declared (int, String, int[]), joined by '#'.
C13_Key(file, type_decl, constructor) ==
    LET qualified_name == qualify(file.package, type_decl.name)
        params == [i \in 1..Len(constructor.parameters) |->
                      constructor.parameters[i].type.name
                          \o brackets(constructor.parameters[i].type.dimensions)]
    IN  IF params = <<>> THEN dotted(qualified_name, type_decl.name)
        ELSE dotted(qualified_name, type_decl.name) \o <<"#">>
                 \o join_with(<<"#">>, params)

\* C13: after the build every constructor of every indexed class is present
\* in the method index under its own key, <package>.<Type>.<Type> without
\* parameters and <package>.<Type>.<Type>#<P1>#...#<Pn> with them, so that
\* two constructors of one class with different parameter lists each have
\* their record.
C13_ConstructorKeys ==
    BothPassesDone =>
        \A file \in ParsedFiles :
            \A t \in { i \in 1..Len(file.types) :
                         file.types[i].kind = "ClassDeclaration" } :
                \A c \in 1..Len(file.types[t].constructors) :
                    LET constructor == file.types[t].constructors[c]
                        key == C13_Key(file, file.types[t], constructor)
                    IN  /\ key \in DOMAIN method_index
                        /\ method_index[key].type = "constructor"
                        /\ method_index[key].start_line = constructor.line

\* The type C14 gives a method with the modifier set modifiers.
C14_Type(modifiers) ==
    IF "abstract" \in modifiers THEN "abstract_method"
    ELSE IF "static" \in modifiers THEN "static_method"
    ELSE "method"

\* C14: every method record of the method index has type abstract_method
\* when its modifiers contain abstract, else static_method when they contain
\* static, else method, and its modifiers are exactly those of a method of
\* that name declared in its file.
C14_MethodTypes ==
    \A key \in DOMAIN method_index :
        LET record == method_index[key]
            methods == declarations_of(open(project, record.file_path).types,
                                       "MethodDeclaration")
        IN  record.type # "constructor" =>
                /\ record.type = C14_Type(record.modifiers)
                /\ \E i \in 1..Len(methods) :
                       /\ methods[i].name = record.name
                       /\ methods[i].modifiers = record.modifiers

\* The key C18 gives the second of two overloads: the qualified method name
\* followed by (type1,type2,...).
C18_OverloadKey(qualified_name, method) ==
    dotted(qualified_name, method.name) \o <<"(">>
        \o join_with(<<",">>, [i \in 1..Len(method.parameters) |->
                                  _get_type_name(method.parameters[i].type)])
        \o <<")">>

\* C18: when a class declares two methods of one name with different
\* parameter lists, after the build the first is in the method index under
\* the qualified name and the second under the qualified name extended with
\* (type1,type2,...): both records are present, neither overwritten.
C18_OverloadsKept ==
    BothPassesDone =>
        \A file \in ParsedFiles :
            \A t \in { i \in 1..Len(file.types) :
                         file.types[i].kind = "ClassDeclaration" } :
                LET methods == file.types[t].methods
                    qualified_name == qualify(file.package, file.types[t].name)
                IN  \A i, j \in 1..Len(methods) :
                        (/\ i < j
                         /\ methods[i].name = methods[j].name
                         /\ methods[i].parameters # methods[j].parameters
                         /\ methods[j].parameters # <<>>) =>
                            LET first == dotted(qualified_name, methods[i].name)
                                second == C18_OverloadKey(qualified_name, methods[j])
                            IN  /\ first \in DOMAIN method_index
                                /\ method_index[first].start_line = methods[i].line
                                /\ second \in DOMAIN method_index
                                /\ method_index[second].start_line = methods[j].line

\* C19: the name the impact mapper and the call-resolution pass compute for
\* a declaration, <first top-level type>.<name>, is the key under which the
\* indexing pass stored that declaration, and the record under that name is
\* the declaration's: this holds for constructors with parameters, for
\* methods of nested types and for methods of a second top-level type.
C19_NamesAgree ==
    BothPassesDone =>
        \A file \in ParsedFiles :
            \A t \in { i \in 1..Len(file.types) :
                         file.types[i].kind = "ClassDeclaration" } :
                LET type_decl == file.types[t]
                    qualified_name == qualify(file.package, type_decl.name)
                    entries == class_entries(file, type_decl)
                    declarations == type_decl.constructors \o type_decl.methods
                IN  \A i \in 1..Len(declarations) :
                        LET name == dotted(_get_current_class(file),
                                           declarations[i].name)
                        IN  /\ name = entries[i].key
                            /\ name \in DOMAIN method_index
                            /\ method_index[name].class_name = qualified_name

\* The step stores a call: some caller has a callee it did not have.
AddsCall ==
    \E caller \in DOMAIN call_graph'.edges :
        \E callee \in call_graph'.edges[caller].callees :
            \/ caller \notin DOMAIN call_graph.edges
            \/ callee \notin call_graph.edges[caller].callees

\* C20: in a project build, by build_project_index or by analyze_project, a
\* step stores a call or runs the call pass on a file only when the loop of
\* the indexing pass has gone through every file of the project, and a step
\* of the indexing pass stores no call.
C20_CallsAfterIndexing ==
    [][/\ (AddsCall \/ last'.op = "_process_file_calls") =>
              /\ pc \in {"calls", "project_calls"}
              /\ file_pos = Len(project)
       /\ pc \in {"index", "project_index"} => ~AddsCall]_vars

\* C20 happens: in a project of two files the call pass of analyze_project,
\* run after a build_project_index, has just handled the file whose calls
\* are in the graph.
C20_Witness ==
    /\ pc = "project_calls"
    /\ Len(project) >= 2
    /\ processed_files # {}
    /\ last.op = "_process_file_calls"
    /\ last.name = N_java.path
    /\ get_callees(call_graph, <<"p",".","N",".","a">>) # {}

---------------------------------------------------------------------------
(* Properties of the hunk body (SpecDiff) *)

\* C15: every list of modified line numbers parse_diff returns is strictly
\* ascending, hence without duplicates, and holds the recorded positions.
C15_StrictlyAscending ==
    pc = "parsed" =>
        \A file_path \in DOMAIN diff_result :
            /\ \A i, j \in 1..Len(diff_result[file_path]) :
                   i < j => diff_result[file_path][i] < diff_result[file_path][j]
            /\ Range(diff_result[file_path]) = diff_state.changes[file_path]

\* C15 happens: a removed line and the added line after it record the same
\* position, and the returned list has several numbers.
C15_Witness ==
    /\ pc = "parsed"
    /\ \E k \in 1..(Len(diff_text) - 1) :
           diff_text[k] = RemovedLine /\ diff_text[k + 1] = AddedLine
    /\ \E file_path \in DOMAIN diff_result : Len(diff_result[file_path]) >= 2

\* The loop of parse_diff reads a line of a hunk body: the parser is in a
\* hunk of a current file and the line is neither a file header nor a hunk
\* header.
ReadsBodyLine ==
    /\ pc = "diff"
    /\ diff_pos' = diff_pos + 1
    /\ diff_state.in_hunk
    /\ diff_state.current_file # <<>>
    /\ ~file_pattern_match(diff_text'[diff_pos + 1]).matched
    /\ ~hunk_pattern_match(diff_text'[diff_pos + 1]).matched

\* C16: inside a hunk every line that starts with '+' and every line that
\* starts with '-', whatever follows, records the current value of the
\* counter in the modified-line set of the current file; a context line or
\* a no-newline marker records nothing.
C16_AddedAndRemovedRecord ==
    [][ReadsBodyLine =>
          LET line == diff_text'[diff_pos + 1]
              file == diff_state.current_file
          IN  IF startswith(line, <<"+">>) \/ startswith(line, <<"-">>)
              THEN diff_state'.changes[file] =
                       diff_state.changes[file] \cup {diff_state.current_line_number}
              ELSE diff_state'.changes = diff_state.changes]_vars

\* C17: inside a hunk the counter is one more after a line that starts with
\* '+' and after a context line, and the same after a line that starts with
\* '-' and after a no-newline marker; within the hunk it never decreases.
C17_CounterAdvance ==
    [][ReadsBodyLine =>
          LET line == diff_text'[diff_pos + 1]
              unchanged == startswith(line, <<"-">>) \/ startswith(line, <<"\\">>)
          IN  /\ diff_state'.current_line_number =
                     IF unchanged THEN diff_state.current_line_number
                     ELSE diff_state.current_line_number + 1
              /\ diff_state'.current_line_number >= diff_state.current_line_number]_vars

\* The line begins like a hunk header or a file header and matches neither
\* pattern.
C21_Malformed(line) ==
    /\ startswith(line, <<"@", "@">>) \/ startswith(line, <<"d", "i", "f", "f", " ">>)
    /\ ~file_pattern_match(line).matched
    /\ ~hunk_pattern_match(line).matched

\* C21: a line that begins like a hunk header ('@@') or a file header and
\* does not match the grammar is ignored: reading it records no line number
\* and leaves the counter, the current file and the in-hunk state as they
\* were.
C21_MalformedHeaderIgnored ==
    [][(/\ pc = "diff"
        /\ diff_pos' = diff_pos + 1
        /\ C21_Malformed(diff_text'[diff_pos + 1])) =>
           diff_state' = diff_state]_vars

\* C22: reading a file header starts an empty modified-line set for its
\* path, makes it the current file and ends the hunk; while no hunk header
\* has been read since, no line is recorded; and a step changes no set but
\* that of the most recent file header.
C22_FileHeaderEndsHunk ==
    [][(pc = "diff" /\ diff_pos' = diff_pos + 1) =>
          LET line == diff_text'[diff_pos + 1]
          IN  /\ file_pattern_match(line).matched =>
                     /\ diff_state'.current_file # <<>>
                     /\ diff_state'.changes[diff_state'.current_file] = {}
                     /\ ~diff_state'.in_hunk
              /\ (~diff_state.in_hunk /\ ~hunk_pattern_match(line).matched) =>
                     \A file_path \in DOMAIN diff_state.changes :
                         diff_state'.changes[file_path] \subseteq
                             diff_state.changes[file_path]
              /\ \A file_path \in DOMAIN diff_state'.changes :
                     file_path # diff_state'.current_file =>
                         /\ file_path \in DOMAIN diff_state.changes
                         /\ diff_state'.changes[file_path] =
                                diff_state.changes[file_path]]_vars

\* C22 happens: after a recorded line of the first file the header of a
\* second file is read; the added line after it is not recorded, and the
\* one after the next hunk header is, in the second file's set only.
C22_Witness ==
    /\ pc = "parsed"
    /\ Len(diff_text) = 6
    /\ diff_text[3] = SecondFileHeader
    /\ diff_text[4] = AddedLine
    /\ diff_text[5] = LaterHunkHeader
    /\ diff_text[6] = AddedLine
    /\ diff_result = (<<"A",".","j","a","v","a">> :> <<>>) @@ (<<"B",".","j","a","v","a">> :> <<40>>)

---------------------------------------------------------------------------
(* Properties of the indexer, the resolver and the line map (Spec) *)

\* C23: after the build every method and constructor declaration of every
\* type of a file, class, interface or enum, top-level or nested, has a
\* record in the method index under the qualified name of its declaring
\* type: a method under <type>.<name>, a constructor under a key that begins
\* with <type>.<Type>.
C23_EveryTypeIndexed ==
    BothPassesDone =>
        \A file \in ParsedFiles :
            \A t \in 1..Len(file.types) :
                LET type_decl == file.types[t]
                    qualified_name == qualify(file.package, type_decl.name)
                IN  /\ \A i \in 1..Len(type_decl.methods) :
                           LET key == dotted(qualified_name, type_decl.methods[i].name)
                           IN  /\ key \in DOMAIN method_index
                               /\ method_index[key].class_name = qualified_name
                    /\ type_decl.constructors # <<>> =>
                           \E key \in DOMAIN method_index :
                               /\ startswith(key, dotted(qualified_name, type_decl.name))
                               /\ method_index[key].type = "constructor"
                               /\ method_index[key].class_name = qualified_name

\* C24: the qualified calls of Q.r resolve by the first matching rule: Foo,
\* an imported simple name, to q.Foo.m; a.b.C, which contains a '.', to
\* a.b.C.m; Other, by the same-package fallback, to p.Other.m; and in the
\* class p of the default package Other.m() resolves to Other.m, with an
\* empty package part.
C24_QualifiedCalls ==
    (BothPassesDone /\ \E t \in Presentations :
                           project = <<Q_java(t), d_p_java(t)>>) =>
        /\ get_callees(call_graph, <<"p",".","Q",".","r">>) = { <<"q",".","F","o","o",".","m">>, <<"a",".","b",".","C",".","m">>, <<"p",".","O","t","h","e","r",".","m">> }
        /\ get_callees(call_graph, <<"p",".","Q">>) = { <<"O","t","h","e","r",".","m">> }

\* C25: in every result of analyze_file each affected name has an entry in
\* the method line map, and the range stored for it contains one of the
\* modified lines.
C25_RangeHoldsModifiedLine ==
    AnalysisReturned =>
        \A name \in Range(analysis.affected_methods) :
            /\ name \in DOMAIN analysis.method_line_map
            /\ \E line \in analysis.modified_lines :
                   /\ analysis.method_line_map[name].start_line <= line
                   /\ line <= analysis.method_line_map[name].end_line

\* analyze_project as one call on the extractor state st: the first loop
\* indexes every file of java_files, the second resolves their calls.
RECURSIVE analyze_project_loops(_, _, _, _)
analyze_project_loops(st, files, pass, i) ==
    IF i > Len(files)
    THEN IF pass = 1 THEN analyze_project_loops(st, files, 2, 1) ELSE st
    ELSE analyze_project_loops(
             IF contains(files[i].path, <<"p","a","c","k","a","g","e","-","i","n","f","o",".","j","a","v","a">>) THEN st
             ELSE IF pass = 1 THEN _process_file(st, files[i])
             ELSE _process_file_calls(st, files, files[i]),
             files, pass, i + 1)

analyze_project(st, files) == analyze_project_loops(st, files, 1, 1)

\* The extractor state _clear_caches leaves.
ClearedState == [method_index |-> <<>>, call_graph |-> EmptyGraph, import_cache |-> <<>>]

\* C26: a full build starts from an empty state: when analyze_project
\* returns, the method index and the call graph are those the run derives
\* from the project alone, whatever an earlier run on the same extractor
\* left, and build_project_index begins by emptying both.
C26_OnlySecondRun ==
    /\ (last.op = "analyze_project" /\ last.outcome = "returned") =>
           /\ method_index = analyze_project(ClearedState, project).method_index
           /\ call_graph = analyze_project(ClearedState, project).call_graph
    /\ last.op = "build_project_index" =>
           method_index = <<>> /\ call_graph = EmptyGraph

---------------------------------------------------------------------------
(* Properties of add_call and of the statistics (SpecGraph) *)

\* C27: an add_call that is dropped leaves the whole graph as it was: no
\* edges entry is created and no callers or callees set changes; and no
\* add_call, dropped or accepted, changes the nodes map.
C27_DroppedCallChangesNothing ==
    [][last'.op = "add_call" =>
          /\ call_graph'.nodes = call_graph.nodes
          /\ last'.outcome # "added" => call_graph' = call_graph]_vars

\* An add_call has just been dropped for a standard-library type name, on a
\* graph that holds a node and an edge, the caller having no edges entry.
C27_Witness ==
    /\ last.op = "add_call" /\ last.outcome = "standard_library"
    /\ DOMAIN call_graph.nodes # {}
    /\ Members(call_graph) # {}
    /\ \E caller \in QNames \ DOMAIN call_graph.edges, callee \in QNames :
           ~is_excluded_prefix(caller) /\ ~is_excluded_prefix(callee)
               /\ add_call_skips(caller, callee)

\* The (caller, callee) pairs the graph holds on the callees side, and the
\* sum of the sizes of all callers sets.
C28_Pairs(graph) ==
    { pair \in (DOMAIN graph.edges) \X Members(graph) :
        pair[2] \in graph.edges[pair[1]].callees }

RECURSIVE C28_CallersTotal(_, _)
C28_CallersTotal(graph, keys) ==
    IF keys = {} THEN 0
    ELSE LET k == CHOOSE x \in keys : TRUE
         IN  Cardinality(graph.edges[k].callers) + C28_CallersTotal(graph, keys \ {k})

\* C28: total_calls, as get_stats reports it and as save writes it, is the
\* number of distinct accepted (caller, callee) pairs: an accepted add_call
\* of a pair not yet held adds one and an add_method adds nothing (a
\* repeated or a dropped add_call leaves the graph, and so the total, as it
\* was); and it equals the sum of the sizes of all callees sets and the sum
\* of the sizes of all callers sets.
C28_TotalCalls ==
    [][/\ last'.op = "save" =>
              document'.metadata.total_calls = get_stats(call_graph').total_calls
       /\ call_graph' # call_graph =>
              LET total == get_stats(call_graph').total_calls
              IN  /\ total = Cardinality(C28_Pairs(call_graph'))
                  /\ total = C28_CallersTotal(call_graph', DOMAIN call_graph'.edges)
                  /\ total = get_stats(call_graph).total_calls
                         + (IF last'.op = "add_call" /\ last'.outcome = "added"
                               /\ C28_Pairs(call_graph') # C28_Pairs(call_graph)
                            THEN 1 ELSE 0)]_vars

\* A graph with two calls from one caller, one of them to itself, has just
\* been saved with a total of 2.
C28_Witness ==
    /\ last.op = "save"
    /\ document.metadata.total_calls = 2
    /\ \E k \in DOMAIN call_graph.edges :
           k \in call_graph.edges[k].callees /\ Cardinality(call_graph.edges[k].callees) = 2

---------------------------------------------------------------------------
(* Properties of declarations and their line ranges (Spec) *)

\* The file without the declarations that carry no position.
C29_Positioned(file) ==
    [file EXCEPT !.types =
        [i \in 1..Len(file.types) |->
            [file.types[i] EXCEPT
                !.methods = SelectSeq(@, LAMBDA d : d.line # 0),
                !.constructors = SelectSeq(@, LAMBDA d : d.line # 0)]]]

\* The start_line and end_line of a stored record, 0 where it has none.
C29_Start(record) == IF "start_line" \in DOMAIN record THEN record.start_line ELSE 0

C29_End(record) == IF "end_line" \in DOMAIN record THEN record.end_line ELSE 0

\* C29: a declaration without position is never reported as affected and
\* never entered in the method line map: analyze_file returns what it would
\* return were the declaration not in the file, the other declarations of
\* the file are still mapped, and the record the index and the graph keep
\* for the declaration has neither start line nor end line.
C29_NoPositionIsUnknown ==
    /\ AnalysisReturned =>
           LET positioned == [i \in 1..Len(project) |-> C29_Positioned(project[i])]
               found == find_methods_by_lines(positioned, analysis.file_path,
                                              analysis.modified_lines)
           IN  /\ Range(analysis.affected_methods) = found.affected_methods
               /\ analysis.method_line_map = found.method_line_map
    /\ \A key \in DOMAIN method_index :
           C29_Start(method_index[key]) = 0 => C29_End(method_index[key]) = 0
    /\ \A key \in DOMAIN call_graph.nodes :
           C29_Start(call_graph.nodes[key]) = 0 => C29_End(call_graph.nodes[key]) = 0

\* analyze_file has returned for I.java with line 36, inside the method q
\* that has no position, and line 20 among the modified lines: v is
\* reported, and the index holds the record of q.
C29_Witness ==
    /\ AnalysisReturned
    /\ analysis.file_path = <<"I",".","j","a","v","a">>
    /\ {20, 36} \subseteq analysis.modified_lines
    /\ analysis.affected_methods # <<>>
    /\ <<"p",".","K",".","q">> \in DOMAIN method_index
    /\ "start_line" \in DOMAIN method_index[<<"p",".","K",".","q">>]
    /\ method_index[<<"p",".","K",".","q">>].start_line = 0

\* The largest line among a declaration node and its descendants.
C30_MaxLine(d) ==
    CHOOSE x \in {d.line} \cup d.child_lines :
        \A y \in {d.line} \cup d.child_lines : y <= x

\* The range [start_line, end_line] is that of a declaration of the file
\* file_path of the project, and is not empty.
C30_RangeOfDeclaration(file_path, start_line, end_line) ==
    /\ start_line <= end_line
    /\ \A i \in 1..Len(project) :
           project[i].path = file_path =>
               \E d \in Range(all_declarations(project[i].types)) :
                   d.line = start_line /\ end_line = C30_MaxLine(d)

\* C30: for every declaration with a position the end line is the largest
\* line among the declaration node and its descendants, so that every range
\* stored in the method index, in a call graph node and in the method line
\* map has start_line <= end_line.
C30_EndLineIsMaximum ==
    /\ \A key \in DOMAIN method_index :
           C29_Start(method_index[key]) # 0 =>
               C30_RangeOfDeclaration(method_index[key].file_path,
                                      method_index[key].start_line,
                                      method_index[key].end_line)
    /\ \A key \in DOMAIN call_graph.nodes :
           C29_Start(call_graph.nodes[key]) # 0 =>
               C30_RangeOfDeclaration(call_graph.nodes[key].file_path,
                                      call_graph.nodes[key].start_line,
                                      call_graph.nodes[key].end_line)
    /\ AnalysisReturned =>
           \A name \in DOMAIN analysis.method_line_map :
               C30_RangeOfDeclaration(analysis.file_path,
                                      analysis.method_line_map[name].start_line,
                                      analysis.method_line_map[name].end_line)

\* analyze_file has returned for S.java, whose declarations span several
\* lines: the index, the graph and the line map hold the range 40-45 of m.
C30_Witness ==
    /\ AnalysisReturned
    /\ analysis.file_path = <<"S",".","j","a","v","a">>
    /\ <<"p",".","S",".","m">> \in DOMAIN analysis.method_line_map
    /\ analysis.method_line_map[<<"p",".","S",".","m">>] = [start_line |-> 40, end_line |-> 45]
    /\ <<"p",".","S",".","m">> \in DOMAIN method_index
    /\ method_index[<<"p",".","S",".","m">>].end_line = 45
    /\ <<"p",".","S",".","m">> \in DOMAIN call_graph.nodes
    /\ call_graph.nodes[<<"p",".","S",".","m">>].end_line = 45

====
